---- MODULE Spec2Model ----
(***************************************************************************)
(* A model of the typedgql runtime: the schema metadata the resolver       *)
(* consults, the immutable linked list of selection nodes (SelectionImpl),  *)
(* the fold of a chain into its field map and directive map, the resolver   *)
(* (proxy) operations that build nodes, and the serializer.                 *)
(*                                                                         *)
(* Text is modelled as a sequence of string tokens: every call of          *)
(* TextBuilder.text appends the pieces of its argument, a line break is    *)
(* the token "\n" and one level of indentation is the token "\t".          *)
(***************************************************************************)
EXTENDS Integers, Sequences, FiniteSets, TLC

VARIABLES
    nodes,            \* the heap of SelectionImpl objects, in creation order
    fieldMapMemo,     \* per node: the memoized _fieldMap
    directiveMapMemo, \* per node: the memoized _directiveMap
    resultMemo,       \* per node: the memoized _result of serialize
    last,             \* the most recent call that builds nodes or serializes:
                      \* its inputs and outcome
    schemaTypes,                  \* the SchemaType objects, in creation order
    SCHEMA_TYPE_REGISTRY,         \* name -> registered SchemaType
    SCHEMA_TYPE_FACTORY_REGISTRY, \* name -> pending factory
    SCHEMA_TYPE_RESOLVING,        \* the names whose factory is running
    schemaCall,       \* the most recent call of the schema module: its inputs
                      \* and outcome
    isRunning,        \* the flag of the vite plugin
    runs,             \* the calls of runCodegen that passed the flag and have
                      \* not finished
    schemaFile,       \* the version of the local schema file on disk
    changeEvents,     \* the change events of the schema file the watcher
                      \* has not yet emitted
    generated,        \* the schema version the files in targetDir were
                      \* generated from (-1: none)
    pluginLog,        \* the most recent hook call and the history of the runs
    writer,           \* a TextBuilder written to directly
    written,          \* what was written to it: the number of items in each
                      \* open scope and the number of separators due
    serializing       \* the call of serialize that is running, round by round

schemaVars ==
    <<schemaTypes, SCHEMA_TYPE_REGISTRY, SCHEMA_TYPE_FACTORY_REGISTRY,
      SCHEMA_TYPE_RESOLVING, schemaCall>>

selectionVars == <<nodes, fieldMapMemo, directiveMapMemo, resultMemo, last>>

pluginVars == <<isRunning, runs, schemaFile, changeEvents, generated, pluginLog>>

writerVars == <<writer, written>>

drainVars == <<serializing>>

vars == <<selectionVars, schemaVars, pluginVars, writerVars, drainVars>>

(***************************************************************************)
(* Bounds of the model.                                                    *)
(***************************************************************************)
\* nodes in the heap of the builder specification Spec
MaxNodes == 3
\* nodes in the single chain of the fold specification SpecFold
MaxChain == 4

(***************************************************************************)
(* Values: argument bundles, deferred-variable references, field options.  *)
(***************************************************************************)
\* an absent (undefined) argument bundle
NoArgs == [def |-> FALSE, kv |-> <<>>]

\* an argument bundle with the given key/value pairs, in insertion order
Args(kv) == [def |-> TRUE, kv |-> kv]

\* ParameterRef.of(name, graphqlTypeName?): "" stands for an absent type
ParameterRefOf(name, graphqlTypeName) ==
    [kind |-> "ref", name |-> name, graphqlTypeName |-> graphqlTypeName, text |-> ""]

\* a number, boolean or already rendered scalar literal
Literal(text) ==
    [kind |-> "lit", name |-> "", graphqlTypeName |-> "", text |-> text]

\* the absent values null and undefined
Null == [kind |-> "null", name |-> "", graphqlTypeName |-> "", text |-> ""]

Undefined == [kind |-> "undefined", name |-> "", graphqlTypeName |-> "", text |-> ""]

\* an array of values
ArrayOf(items) ==
    [kind |-> "array", name |-> "", graphqlTypeName |-> "", text |-> "", items |-> items]

\* a plain object with the given key/value pairs, in insertion order
ObjectOf(kv) ==
    [kind |-> "object", name |-> "", graphqlTypeName |-> "", text |-> "", kv |-> kv]

\* an absent FieldOptionsValue
NoOptions == [def |-> FALSE, hasAlias |-> FALSE, alias |-> "", directives |-> <<>>]

\* { alias, directives: new Map() }
AliasOptions(alias) ==
    [def |-> TRUE, hasAlias |-> TRUE, alias |-> alias, directives |-> <<>>]

\* { directives } with one directive
DirectiveOptions(directive, directiveArgs) ==
    [def |-> TRUE, hasAlias |-> FALSE, alias |-> "",
     directives |-> <<[key |-> directive, args |-> directiveArgs]>>]

(***************************************************************************)
(* Schema metadata (schema.ts): the types the model registers.             *)
(***************************************************************************)
buildField(name, category, argGraphQLTypeMap, targetTypeName) ==
    LET isPlural == category \in {"LIST", "CONNECTION"}
        isAssociation == category = "REFERENCE" \/ isPlural
    IN  [name |-> name,
         category |-> category,
         argGraphQLTypeMap |-> argGraphQLTypeMap,
         targetTypeName |-> targetTypeName,
         isPlural |-> isPlural,
         isAssociation |-> isAssociation,
         isFunction |-> Len(argGraphQLTypeMap) # 0 \/ isAssociation
                            \/ targetTypeName # ""]

\* the registry after start-up: two object types; the target type of
\* Query.author, User, is not registered
TypeNames == {"Query", "Post"}

ownFields(typeName) ==
    IF typeName = "Query"
    THEN << buildField("id", "ID", <<>>, ""),
            buildField("title", "SCALAR", <<>>, ""),
            buildField("rank", "SCALAR",
                       <<[key |-> "id", t |-> "Int!"]>>, ""),
            buildField("post", "REFERENCE",
                       <<[key |-> "id", t |-> "ID!"]>>, "Post"),
            buildField("posts", "LIST",
                       <<[key |-> "limit", t |-> "Int"]>>, "Post"),
            buildField("author", "REFERENCE", <<>>, "User") >>
    ELSE << buildField("id", "ID", <<>>, ""),
            buildField("title", "SCALAR", <<>>, ""),
            buildField("rank", "SCALAR",
                       <<[key |-> "id", t |-> "Int!"]>>, "") >>

\* schemaType.fields.has(p)
HasSchemaField(typeName, p) ==
    \E i \in 1..Len(ownFields(typeName)) : ownFields(typeName)[i].name = p

\* schemaType.fields.get(p), for a declared p
SchemaField(typeName, p) ==
    LET fs == ownFields(typeName)
    IN  fs[CHOOSE i \in 1..Len(fs) : fs[i].name = p]

\* type.endsWith("!")
EndsWithBang(t) == t \in {"ID!", "Int!"}

(***************************************************************************)
(* Spread keys: the strings addEmbeddable builds and the serializer parses. *)
(***************************************************************************)
FragmentNames == {"F", "G"}

NamedSpread(fragmentName) == "... " \o fragmentName
InlineSpread(typeName) == "... on " \o typeName

NamedSpreads == {NamedSpread(f) : f \in FragmentNames}
InlineSpreads == {InlineSpread(t) : t \in TypeNames}

\* name.startsWith("...")
StartsWithSpread(name) == name \in ({"..."} \cup NamedSpreads \cup InlineSpreads)

\* name.startsWith("... on ")
StartsWithOn(name) == name \in InlineSpreads

\* name.substring("...".length).trim(), for a named spread
FragmentNameOf(name) == CHOOSE f \in FragmentNames : NamedSpread(f) = name

(***************************************************************************)
(* Ordered maps (the JavaScript Map): a sequence of entries with distinct  *)
(* keys, in insertion order.                                               *)
(***************************************************************************)
MapHas(m, key) == \E i \in 1..Len(m) : m[i].key = key

MapIndex(m, key) == CHOOSE i \in 1..Len(m) : m[i].key = key

MapGet(m, key) == m[MapIndex(m, key)]

\* Map.set: an existing key keeps its position and takes the new value
MapSet(m, e) ==
    IF MapHas(m, e.key)
    THEN [m EXCEPT ![MapIndex(m, e.key)] = e]
    ELSE Append(m, e)

\* Map.delete
MapDelete(m, key) == SelectSeq(m, LAMBDA e : e.key # key)

MapKeys(m) == {m[i].key : i \in 1..Len(m)}

(***************************************************************************)
(* The schema registry (schema.ts).  A call runs to its end before the     *)
(* next one starts; it is given the state s of the module (the SchemaType  *)
(* objects, the registry, the set of names being resolved and the log of   *)
(* the resolution requests of the call) and returns the state it leaves,   *)
(* with the type it returns (0 for undefined) or the message it throws.    *)
(***************************************************************************)
SchemaState(types, registry, resolving) ==
    [types |-> types, registry |-> registry, resolving |-> resolving, log |-> <<>>]

SchemaReturns(s, result) == [s |-> s, result |-> result, error |-> ""]

SchemaThrows(s, message) == [s |-> s, result |-> 0, error |-> message]

\* a FieldDescriptor in object form
Descriptor(name, category) == [name |-> name, category |-> category]

\* the loop of createSchemaType over declaredFields: declaredFieldMap.set
RECURSIVE declaredFieldMapFrom(_, _, _)
declaredFieldMapFrom(declaredFields, i, map) ==
    IF i > Len(declaredFields) THEN map
    ELSE declaredFieldMapFrom(
             declaredFields, i + 1,
             MapSet(map, [key |-> declaredFields[i].name,
                          field |-> buildField(declaredFields[i].name,
                                               declaredFields[i].category, <<>>, "")]))

\* the message validateType throws, "" when it returns
validateType(name, category, declaredFields, superTypes) ==
    IF category = "CONNECTION" /\ ~MapHas(declaredFields, "edges")
    THEN "CONNECTION must have an edges field"
    ELSE IF category = "CONNECTION"
            /\ MapGet(declaredFields, "edges").field.category # "LIST"
    THEN "CONNECTION edges must be LIST"
    ELSE IF category = "EDGE" /\ ~MapHas(declaredFields, "node")
    THEN "EDGE must have a node field"
    ELSE IF category = "EDGE"
            /\ MapGet(declaredFields, "node").field.category # "REFERENCE"
    THEN "EDGE node must be REFERENCE"
    ELSE IF category = "EDGE" /\ MapHas(declaredFields, "cursor")
            /\ MapGet(declaredFields, "cursor").field.category # "SCALAR"
    THEN "EDGE cursor must be SCALAR"
    ELSE IF category \in {"CONNECTION", "EDGE"} /\ Len(superTypes) # 0
    THEN "cannot have super types"
    ELSE ""

\* `let _fields` of createSchemaType before the getter ran: undefined
NoFields == [defined |-> FALSE, map |-> <<>>]

\* the SchemaType object createSchemaType builds; interfaces holds the
\* types passed as superTypes (0 for an undefined one), _fields the
\* variable the getter `fields` closes over
SchemaTypeObject(name, category, superTypes, declaredFieldMap) ==
    [name |-> name, category |-> category, interfaces |-> superTypes,
     ownFields |-> declaredFieldMap, _fields |-> NoFields]

\* registerSchemaType that replaces the entry by a definition with as many
\* own fields
registerSchemaType_ReplacesEqual(s, t) ==
    IF ~MapHas(s.registry, s.types[t].name)
       \/ Len(s.types[MapGet(s.registry, s.types[t].name).type].ownFields)
              <= Len(s.types[t].ownFields)
    THEN [s EXCEPT !.registry = MapSet(@, [key |-> s.types[t].name, type |-> t])]
    ELSE s

\* registerSchemaType(type), for the type at index t
registerSchemaType(s, t) ==
    IF ~MapHas(s.registry, s.types[t].name)
       \/ Len(s.types[MapGet(s.registry, s.types[t].name).type].ownFields)
              < Len(s.types[t].ownFields)
    THEN [s EXCEPT !.registry = MapSet(@, [key |-> s.types[t].name, type |-> t])]
    ELSE s

\* the end of createSchemaType: the object is built and registered
construct(s, name, category, superTypes, declaredFieldMap) ==
    SchemaReturns(
        registerSchemaType(
            [s EXCEPT !.types = Append(@, SchemaTypeObject(name, category, superTypes,
                                                           declaredFieldMap))],
            Len(s.types) + 1),
        Len(s.types) + 1)

\* createSchemaType with the validation after the registration
createSchemaType_ValidatesLast(s, name, category, superTypes, declaredFields) ==
    IF validateType(name, category, declaredFieldMapFrom(declaredFields, 1, <<>>),
                    superTypes) # ""
    THEN SchemaThrows(
             construct(s, name, category, superTypes,
                       declaredFieldMapFrom(declaredFields, 1, <<>>)).s,
             validateType(name, category,
                          declaredFieldMapFrom(declaredFields, 1, <<>>), superTypes))
    ELSE construct(s, name, category, superTypes,
                   declaredFieldMapFrom(declaredFields, 1, <<>>))

createSchemaType(s, name, category, superTypes, declaredFields) ==
    IF validateType(name, category, declaredFieldMapFrom(declaredFields, 1, <<>>),
                    superTypes) # ""
    THEN SchemaThrows(s, validateType(name, category,
                                      declaredFieldMapFrom(declaredFields, 1, <<>>),
                                      superTypes))
    ELSE construct(s, name, category, superTypes,
                   declaredFieldMapFrom(declaredFields, 1, <<>>))

\* the first loop of _collect: out.set(name, field) for each own field
RECURSIVE setAll(_, _, _)
setAll(out, fields, i) ==
    IF i > Len(fields) THEN out
    ELSE setAll(MapSet(out, fields[i]), fields, i + 1)

\* the outcome of a walk: the map filled so far, or the TypeError of
\* reading ownFields of an undefined supertype
Collected(map, error) == [map |-> map, error |-> error]

RECURSIVE collect(_, _, _)
RECURSIVE collectSupers(_, _, _, _)

\* the second loop of _collect: _collect(superType, out) for each supertype
collectSupers(types, supers, i, r) ==
    IF r.error # "" \/ i > Len(supers) THEN r
    ELSE collectSupers(types, supers, i + 1, collect(types, supers[i], r))

\* _collect(type, out), for the type at index t
collect(types, t, r) ==
    IF t = 0 THEN Collected(r.map, "TypeError")
    ELSE collectSupers(types, types[t].interfaces, 1,
                       Collected(setAll(r.map, types[t].ownFields, 1), ""))

collectFields(types, t) == collect(types, t, Collected(<<>>, ""))

\* the value the getter assigns to _fields
mergedFields(types, t) ==
    IF Len(types[t].interfaces) = 0 THEN Collected(types[t].ownFields, "")
    ELSE collectFields(types, t)

\* the getter `fields` of the type at index t: _fields is computed when it
\* is undefined and returned; result holds the type whose _fields is the
\* value returned
fieldsOf(s, t) ==
    IF s.types[t]._fields.defined THEN SchemaReturns(s, t)
    ELSE IF mergedFields(s.types, t).error # ""
    THEN SchemaThrows(s, mergedFields(s.types, t).error)
    ELSE SchemaReturns(
             [s EXCEPT !.types[t]._fields =
                           [defined |-> TRUE, map |-> mergedFields(s.types, t).map]],
             t)

\* a factory of the form the generator emits:
\* () => createSchemaType(name, category, [resolveRegisteredSchemaType(d)!
\* for each d of deps], declaredFields)
Factory(deps, name, category, declaredFields) ==
    [deps |-> deps, name |-> name, category |-> category,
     declaredFields |-> declaredFields]

\* SCHEMA_TYPE_REGISTRY.get(typeName), 0 for undefined
registered(s, typeName) ==
    IF MapHas(s.registry, typeName) THEN MapGet(s.registry, typeName).type ELSE 0

\* the record of one resolution request: the name, the factories running
\* when it was made (outermost first), whether the name was registered and
\* had a factory then, and what the request returned or threw
Logged(s0, factories, typeName, stack, r) ==
    [r EXCEPT !.s.log = Append(@, [name |-> typeName, stack |-> stack,
                                   known |-> registered(s0, typeName),
                                   pending |-> MapHas(factories, typeName),
                                   result |-> r.result, error |-> r.error])]

\* the throw of resolveRegisteredSchemaType replaced by `return undefined`
circular_ReturnsUndefined(s, typeName) == SchemaReturns(s, 0)

\* throw new Error(`Circular schema factory resolution detected for "..."`)
circular(s, typeName) ==
    SchemaThrows(s, "Circular schema factory resolution detected for " \o typeName)

\* the try block of resolveRegisteredSchemaType after factory() returned or
\* threw r: registerSchemaType(created)
registerCreated(r) ==
    IF r.error # "" THEN r
    ELSE SchemaReturns(registerSchemaType(r.s, r.result), r.result)

\* the delete moved from the finally block to the end of the try block: it
\* is skipped when the factory or the registration throws
finallyDelete_OnlyOnSuccess(typeName, r) ==
    IF r.error # ""
    THEN SchemaThrows(r.s, r.error)
    ELSE SchemaReturns([r.s EXCEPT !.resolving = @ \ {typeName}],
                       registered(r.s, typeName))

\* the finally block and the return: SCHEMA_TYPE_RESOLVING.delete(typeName),
\* then the error goes on or SCHEMA_TYPE_REGISTRY.get(typeName) is returned
finallyDelete(typeName, r) ==
    IF r.error # ""
    THEN SchemaThrows([r.s EXCEPT !.resolving = @ \ {typeName}], r.error)
    ELSE SchemaReturns([r.s EXCEPT !.resolving = @ \ {typeName}],
                       registered(r.s, typeName))

\* the call of createSchemaType in a factory, after its supertypes were
\* resolved with outcome r (r.result holds the supertypes)
createFrom(factory, r) ==
    IF r.error # "" THEN SchemaThrows(r.s, r.error)
    ELSE createSchemaType(r.s, factory.name, factory.category, r.result,
                          factory.declaredFields)

RECURSIVE resolveRegisteredSchemaType(_, _, _, _)
RECURSIVE resolveAll(_, _, _, _, _)

\* the supertype arguments of a factory, resolved in turn; r.result holds
\* the types resolved so far
resolveAll(r, factories, deps, i, stack) ==
    IF r.error # "" \/ i > Len(deps) THEN r
    ELSE resolveAll(
             [resolveRegisteredSchemaType(r.s, factories, deps[i], stack)
                 EXCEPT !.result = Append(r.result, @)],
             factories, deps, i + 1, stack)

\* factory(), for the factory of typeName
runFactory(s, factories, typeName, stack) ==
    createFrom(MapGet(factories, typeName).factory,
               resolveAll(SchemaReturns(s, <<>>), factories,
                          MapGet(factories, typeName).factory.deps, 1,
                          Append(stack, typeName)))

\* resolveRegisteredSchemaType(typeName), called while the factories of
\* stack are running
resolveRegisteredSchemaType(s, factories, typeName, stack) ==
    Logged(s, factories, typeName, stack,
           IF registered(s, typeName) # 0 THEN SchemaReturns(s, registered(s, typeName))
           ELSE IF ~MapHas(factories, typeName) THEN SchemaReturns(s, 0)
           ELSE IF typeName \in s.resolving THEN circular(s, typeName)
           ELSE finallyDelete(
                    typeName,
                    registerCreated(
                        runFactory([s EXCEPT !.resolving = @ \cup {typeName}],
                                   factories, typeName, stack))))

\* registerSchemaTypeFactory(typeName, factory): the first factory is kept
registerSchemaTypeFactory(factories, typeName, factory) ==
    IF MapHas(factories, typeName) THEN factories
    ELSE MapSet(factories, [key |-> typeName, factory |-> factory])

\* the field descriptors of the types the selection specifications use
RECURSIVE declaredFrom(_, _, _)
declaredFrom(fields, i, map) ==
    IF i > Len(fields) THEN map
    ELSE declaredFrom(fields, i + 1,
                      MapSet(map, [key |-> fields[i].name, field |-> fields[i]]))

\* the record of a call of the schema module
SchemaCall(op, name, r) ==
    [op |-> op, name |-> name, result |-> r.result, error |-> r.error,
     log |-> r.s.log]

\* the module after Query and Post were created, as the selection
\* specifications find it
SchemaStartup ==
    /\ schemaTypes = <<SchemaTypeObject("Query", "OBJECT", <<>>,
                                        declaredFrom(ownFields("Query"), 1, <<>>)),
                       SchemaTypeObject("Post", "OBJECT", <<>>,
                                        declaredFrom(ownFields("Post"), 1, <<>>))>>
    /\ SCHEMA_TYPE_REGISTRY = <<[key |-> "Query", type |-> 1],
                                [key |-> "Post", type |-> 2]>>
    /\ SCHEMA_TYPE_FACTORY_REGISTRY = <<>>
    /\ SCHEMA_TYPE_RESOLVING = {}
    /\ schemaCall = [op |-> "createSchemaType", name |-> "Post", result |-> 2,
                     error |-> "", log |-> <<>>]

(***************************************************************************)
(* The vite plugin (vite-plugin.ts) with a local schema file.  A call of   *)
(* runCodegen that passes the flag is a run: it awaits the schema loader,  *)
(* which reads the schema file, and then the generator, which writes the   *)
(* files; each await ends in a later step, and the hooks of the plugin and *)
(* the edits of the schema file come in between in any order.              *)
(***************************************************************************)
\* a run that has not yet read the schema file; since is the number of
\* change events of the schema file handled when it started
Run(trigger, since) == [trigger |-> trigger, pc |-> "load", schema |-> -1, since |-> since]

\* runCodegen without `if (isRunning) return`
runCodegen_Unguarded(running, rs, trigger, since) ==
    [isRunning |-> TRUE, runs |-> Append(rs, Run(trigger, since)), started |-> TRUE]

\* runCodegen(trigger) up to its first await
runCodegen(running, rs, trigger, since) ==
    IF running THEN [isRunning |-> running, runs |-> rs, started |-> FALSE]
    ELSE [isRunning |-> TRUE, runs |-> Append(rs, Run(trigger, since)), started |-> TRUE]

\* the runs without the i-th
Without(rs, i) == SubSeq(rs, 1, i - 1) \o SubSeq(rs, i + 1, Len(rs))

\* a hook calls runCodegen(trigger) after `delivered` change events of the
\* schema file were handled
CallRunCodegen(trigger, delivered) ==
    LET r == runCodegen(isRunning, runs, trigger, delivered)
    IN  /\ isRunning' = r.isRunning
        /\ runs' = r.runs
        /\ pluginLog' = [pluginLog EXCEPT !.trigger = trigger,
                                          !.started = r.started,
                                          !.delivered = delivered,
                                          !.lastStart = IF r.started THEN delivered ELSE @]

\* buildStart()
BuildStart(command) ==
    /\ CallRunCodegen(IF command = "build" THEN "build" ELSE "start", pluginLog.delivered)
    /\ UNCHANGED <<schemaFile, changeEvents, generated>>

\* the schema file is edited; the watcher will emit a change event for it
EditSchemaFile ==
    /\ schemaFile' = schemaFile + 1
    /\ changeEvents' = changeEvents + 1
    /\ UNCHANGED <<isRunning, runs, generated, pluginLog>>

\* the handler of server.watcher.on("change") called for the schema file
ChangeOfSchema ==
    /\ changeEvents > 0
    /\ changeEvents' = changeEvents - 1
    /\ CallRunCodegen("watch", pluginLog.delivered + 1)
    /\ UNCHANGED <<schemaFile, generated>>

\* the handler called for another file: `if (file !== schemaPath) return`
ChangeOfOther ==
    /\ pluginLog' = [pluginLog EXCEPT !.trigger = "", !.started = FALSE]
    /\ UNCHANGED <<isRunning, runs, schemaFile, changeEvents, generated>>

\* catch and finally of runCodegen, and the return after generate():
\* the run i is over and isRunning = false
Finish(i, outcome) ==
    /\ isRunning' = FALSE
    /\ runs' = Without(runs, i)
    /\ pluginLog' = [pluginLog EXCEPT !.outcome = outcome]

\* `await this.options.schemaLoader()` of run i ends: the file was read
\* and parsed (ok), or the loader threw
LoadSchema(i, ok) ==
    /\ runs[i].pc = "load"
    /\ IF ok
       THEN /\ runs' = [runs EXCEPT ![i].pc = "write", ![i].schema = schemaFile]
            /\ UNCHANGED <<isRunning, pluginLog>>
       ELSE Finish(i, "failed")
    /\ UNCHANGED <<schemaFile, changeEvents, generated>>

\* the rest of generate() of run i ends: the files were written from the
\* schema it loaded (ok), or validateSchema or a write threw
Generate(i, ok) ==
    /\ runs[i].pc = "write"
    /\ generated' = IF ok THEN runs[i].schema ELSE generated
    /\ Finish(i, IF ok THEN "done" ELSE "failed")
    /\ UNCHANGED <<schemaFile, changeEvents>>

\* the plugin after typedgql(options) and configResolved
PluginStartup ==
    /\ isRunning = FALSE
    /\ runs = <<>>
    /\ schemaFile = 0
    /\ changeEvents = 0
    /\ generated = -1
    /\ pluginLog = [trigger |-> "", started |-> FALSE, delivered |-> 0,
                    lastStart |-> -1, outcome |-> ""]

(***************************************************************************)
(* SelectionImpl: the node and its getters.                                *)
(***************************************************************************)
\* new SelectionImpl(ctx, negative, field, args, child, fieldOptionsValue,
\*                   directive, directiveArgs); ctx is 0 for a root context,
\* which carries the schema type and the list of concrete member types
\* (<<>> for undefined and for the empty list, which the getter reads alike)
SelectionImpl(ctx, schemaType, unionItemTypes, negative, field, args, child, fieldOptionsValue, directive, directiveArgs) ==
    [ctx |-> ctx, schemaType |-> schemaType, unionItemTypes |-> unionItemTypes,
     negative |-> negative, field |-> field, args |-> args, child |-> child,
     fieldOptionsValue |-> fieldOptionsValue,
     directive |-> directive, directiveArgs |-> directiveArgs]

\* no directive on the node (_directive undefined)
NoDirective == [def |-> FALSE, name |-> ""]

RootNode(schemaType, unionItemTypes) ==
    SelectionImpl(0, schemaType, unionItemTypes, FALSE, "", NoArgs, 0,
                  NoOptions, NoDirective, NoArgs)

RECURSIVE schemaTypeOf(_, _)
schemaTypeOf(h, n) ==
    IF h[n].ctx = 0 THEN h[n].schemaType ELSE schemaTypeOf(h, h[n].ctx)

RECURSIVE unionItemTypesOf(_, _)
unionItemTypesOf(h, n) ==
    IF h[n].ctx = 0 THEN h[n].unionItemTypes ELSE unionItemTypesOf(h, h[n].ctx)

lastField(h, n) == h[n].field

\* the nodes of n's chain that carry a field, oldest first
RECURSIVE chainNodes(_, _)
chainNodes(h, n) ==
    IF n = 0 THEN <<>>
    ELSE chainNodes(h, h[n].ctx) \o (IF h[n].field # "" THEN <<n>> ELSE <<>>)

\* the key of a chain node: alias ?? field
keyOf(node) ==
    IF node.fieldOptionsValue.def /\ node.fieldOptionsValue.hasAlias
    THEN node.fieldOptionsValue.alias
    ELSE node.field

\* the descriptor an add operation stores
fieldEntry(h, n) ==
    LET node == h[n]
        st == schemaTypeOf(h, n)
        declared == HasSchemaField(st, node.field)
    IN  [key |-> keyOf(node),
         name |-> node.field,
         argGraphQLTypes |->
             IF declared THEN Args(SchemaField(st, node.field).argGraphQLTypeMap)
             ELSE NoArgs,
         args |-> node.args,
         fieldOptionsValue |-> node.fieldOptionsValue,
         plural |-> IF declared THEN SchemaField(st, node.field).isPlural ELSE FALSE,
         hasChildren |-> node.child # 0,
         childSelections |-> IF node.child # 0 THEN <<node.child>> ELSE <<>>]

\* the descriptor a spread key starts with
spreadEntry(h, n) ==
    [key |-> keyOf(h[n]), name |-> h[n].field, argGraphQLTypes |-> NoArgs,
     args |-> NoArgs, fieldOptionsValue |-> NoOptions, plural |-> FALSE,
     hasChildren |-> TRUE, childSelections |-> <<>>]

\* foldStep with the remove branch lost: a remove node is replayed as an add
foldStep_RemoveAdds(h, map, n) ==
    LET node == h[n]
        key == keyOf(node)
    IN  IF StartsWithSpread(node.field)
        THEN LET m1 == IF MapHas(map, key) /\ MapGet(map, key).hasChildren
                       THEN map
                       ELSE MapSet(map, spreadEntry(h, n))
                 i == MapIndex(m1, key)
             IN  [m1 EXCEPT ![i].childSelections = Append(@, node.child)]
        ELSE MapSet(map, fieldEntry(h, n))

\* one iteration of the fold loop in _buildFieldMap
foldStep(h, map, n) ==
    LET node == h[n]
        key == keyOf(node)
    IN  IF StartsWithSpread(node.field)
        THEN LET m1 == IF MapHas(map, key) /\ MapGet(map, key).hasChildren
                       THEN map
                       ELSE MapSet(map, spreadEntry(h, n))
                 i == MapIndex(m1, key)
             IN  [m1 EXCEPT ![i].childSelections = Append(@, node.child)]
        ELSE IF node.negative
        THEN MapDelete(map, key)
        ELSE MapSet(map, fieldEntry(h, n))

RECURSIVE foldFrom(_, _, _, _)
foldFrom(h, ns, i, map) ==
    IF i > Len(ns) THEN map
    ELSE foldFrom(h, ns, i + 1, foldStep(h, map, ns[i]))

buildFieldMap(h, n) == foldFrom(h, chainNodes(h, n), 1, <<>>)

\* newest to oldest, the first occurrence of a directive name wins
RECURSIVE buildDirectiveMapFrom(_, _, _)
buildDirectiveMapFrom(h, n, map) ==
    IF n = 0 THEN map
    ELSE buildDirectiveMapFrom(h, h[n].ctx,
            IF h[n].directive.def /\ ~MapHas(map, h[n].directive.name)
            THEN Append(map, [key |-> h[n].directive.name,
                              args |-> h[n].directiveArgs])
            ELSE map)

buildDirectiveMap(h, n) == buildDirectiveMapFrom(h, n, <<>>)

\* get fieldMap: (this._fieldMap ??= this._buildFieldMap())
fieldMap(h, memo, n) ==
    IF memo[n].set THEN memo[n].map ELSE buildFieldMap(h, n)

\* get directiveMap: (this._directiveMap ??= this._buildDirectiveMap())
directiveMap(h, memo, n) ==
    IF memo[n].set THEN memo[n].map ELSE buildDirectiveMap(h, n)

(***************************************************************************)
(* TextBuilder (text-builder.ts).  A value passed to text is the sequence  *)
(* of its lines: <<"a">> is "a", <<"", "@d">> is "\n@d", <<"", "">> "\n".  *)
(***************************************************************************)
NewTextBuilder == [result |-> <<>>, atNewLine |-> FALSE, scopes |-> <<>>]

RECURSIVE Tabs(_)
Tabs(k) == IF k = 0 THEN <<>> ELSE <<"\t">> \o Tabs(k - 1)

flushIndent(w) ==
    IF w.atNewLine
    THEN [w EXCEPT !.result = @ \o Tabs(Len(w.scopes)), !.atNewLine = FALSE]
    ELSE w

lineBreak(w) == [w EXCEPT !.result = Append(@, "\n"), !.atNewLine = TRUE]

\* the while loop of text over the lines of the value
RECURSIVE textLines(_, _, _)
textLines(w, lines, i) ==
    IF i < Len(lines)
    THEN LET w1 == flushIndent(w)
             w2 == IF lines[i] = "" THEN w1
                   ELSE [w1 EXCEPT !.result = Append(@, lines[i])]
         IN  textLines(lineBreak(w2), lines, i + 1)
    ELSE IF lines[i] = "" THEN w
    ELSE LET w1 == flushIndent(w)
         IN  [w1 EXCEPT !.result = Append(@, lines[i])]

text(w, lines) ==
    LET k == Len(w.scopes)
        w1 == IF lines # <<"">> /\ k > 0 /\ ~w.scopes[k].dirty
              THEN LET w0 == IF w.scopes[k].multiLines THEN lineBreak(w) ELSE w
                   IN  [w0 EXCEPT !.scopes[k].dirty = TRUE]
              ELSE w
    IN  textLines(w1, lines, 1)

\* SCOPE_BRACKETS
OpenBracket(type) ==
    IF type = "block" THEN "{" ELSE IF type = "arguments" THEN "(" ELSE "["

CloseBracket(type) ==
    IF type = "block" THEN "}" ELSE IF type = "arguments" THEN ")" ELSE "]"

\* DEFAULT_SEPARATORS: "" stands for no separator
DefaultSeparator(type) == IF type = "block" THEN "" ELSE ", "

\* scope, up to the call of its action
scopeOpen(w, type, multiLines) ==
    LET w1 == text(w, <<OpenBracket(type)>>)
    IN  [w1 EXCEPT !.scopes = Append(@, [type |-> type, multiLines |-> multiLines,
                                         separator |-> DefaultSeparator(type),
                                         dirty |-> FALSE])]

\* scope, after its action: suffix is a value for text
scopeClose(w, suffix) ==
    LET k == Len(w.scopes)
        top == w.scopes[k]
        w1 == [w EXCEPT !.scopes = SubSeq(@, 1, k - 1)]
        w2 == IF top.multiLines /\ ~w1.atNewLine THEN lineBreak(w1) ELSE w1
    IN  text(text(w2, <<CloseBracket(top.type)>>), suffix)

\* separator(value) that does not look at scope.dirty
separator_Always(w, value) ==
    LET k == Len(w.scopes)
        top == w.scopes[k]
        sep == IF value # "" THEN value ELSE top.separator
        w1 == IF sep # "" THEN text(w, <<sep>>) ELSE w
    IN  IF top.multiLines THEN lineBreak(w1) ELSE w1

\* separator(value), called inside a scope; "" stands for an absent value
separator(w, value) ==
    LET k == Len(w.scopes)
        top == w.scopes[k]
        sep == IF value # "" THEN value ELSE top.separator
    IN  IF top.dirty
        THEN LET w1 == IF sep # "" THEN text(w, <<sep>>) ELSE w
             IN  IF top.multiLines THEN lineBreak(w1) ELSE w1
        ELSE w

\* scope with the options separator and prefix ("" for an absent one), up
\* to the call of its action
scopeOpenWith(w, type, multiLines, sep, prefix) ==
    [text(text(w, <<prefix>>), <<OpenBracket(type)>>)
        EXCEPT !.scopes = Append(@, [type |-> type, multiLines |-> multiLines,
                                     separator |-> IF sep # "" THEN sep
                                                   ELSE DefaultSeparator(type),
                                     dirty |-> FALSE])]

\* a TextBuilder just constructed, nothing written
WriterStartup ==
    /\ writer = NewTextBuilder
    /\ written = [items |-> <<>>, due |-> 0]

(***************************************************************************)
(* The serializer (serialize and SerializeContext).  The state st that the *)
(* operators pass along holds the current writer, the context's pending    *)
(* fragments, the shared variable-type map, the names already rendered,    *)
(* the console warnings, the nodes whose memoizing getters were read, and  *)
(* the message of the error thrown ("" while none is).  The environment e  *)
(* holds the heap and the memoized maps the getters return.                *)
(***************************************************************************)
Env(h, fm, dm) == [h |-> h, fm |-> fm, dm |-> dm]

NewSerializeState ==
    [w |-> NewTextBuilder, namedFragmentMap |-> <<>>, variableTypeMap |-> <<>>,
     renderedFragments |-> {}, warnings |-> <<>>, seenF |-> {}, seenD |-> {},
     error |-> ""]

Fail(st, message) == [st EXCEPT !.error = message]

T(st, value) == [st EXCEPT !.w = text(@, <<value>>)]

\* the loop of isMultiLineJSON over the members of an argument bundle
RECURSIVE isMultiLineFrom(_, _, _)
isMultiLineFrom(kv, i, size) ==
    IF i > Len(kv) THEN [error |-> "", value |-> FALSE]
    ELSE IF kv[i].v.kind = "null"
    THEN [error |-> "TypeError: cannot read properties of null", value |-> FALSE]
    ELSE IF kv[i].v.kind \in {"array", "object"} THEN [error |-> "", value |-> TRUE]
    ELSE IF size + 1 > 2 THEN [error |-> "", value |-> TRUE]
    ELSE isMultiLineFrom(kv, i + 1, size + 1)

isMultiLineJSON(args) == isMultiLineFrom(args.kv, 1, 0)

\* the hasField scan of acceptArgs: the keys it warns about, in order, and
\* whether it met a declared key
RECURSIVE scanArgs(_, _, _, _)
scanArgs(kv, typeMap, i, warned) ==
    IF i > Len(kv) THEN [hasField |-> FALSE, warned |-> warned]
    ELSE IF MapHas(typeMap, kv[i].key) THEN [hasField |-> TRUE, warned |-> warned]
    ELSE scanArgs(kv, typeMap, i + 1, Append(warned, kv[i].key))

\* JSON.stringify of a string
Quoted(value) == "\"" \o value \o "\""

\* writer.scope: the opening bracket; nothing more is written once an error
\* is thrown
openScope(st, type, multiLines) ==
    IF st.error # "" THEN st ELSE [st EXCEPT !.w = scopeOpen(@, type, multiLines)]

\* writer.scope: the closing bracket and the suffix, unless the action threw
closeScope(st, suffix) ==
    IF st.error # "" THEN st ELSE [st EXCEPT !.w = scopeClose(@, suffix)]

RECURSIVE acceptLiteral(_, _)
RECURSIVE acceptElements(_, _, _)
RECURSIVE acceptMembers(_, _, _)

\* the loop of acceptLiteral over the elements of an array
acceptElements(st, items, i) ==
    IF i > Len(items) THEN st
    ELSE acceptElements(acceptLiteral([st EXCEPT !.w = separator(@, ", ")], items[i]),
                        items, i + 1)

\* the loop of acceptLiteral over the keys of an object
acceptMembers(st, kv, i) ==
    IF i > Len(kv) THEN st
    ELSE acceptMembers(
             acceptLiteral(T(T([st EXCEPT !.w = separator(@, ", ")], kv[i].key), ": "),
                           kv[i].v),
             kv, i + 1)

acceptLiteral(st, value) ==
    IF value.kind \in {"null", "undefined"} THEN T(st, "null")
    ELSE IF value.kind = "str" THEN T(st, Quoted(value.text))
    ELSE IF value.kind = "array"
    THEN closeScope(acceptElements(openScope(st, "array", FALSE), value.items, 1), <<"">>)
    ELSE IF value.kind = "object"
    THEN closeScope(acceptMembers(openScope(st, "block", FALSE), value.kv, 1), <<"">>)
    ELSE T(st, value.text)

\* the body of the argument loop for a field argument
acceptFieldArg(st, argName, arg, typeMap) ==
    IF ~MapHas(typeMap, argName)
    THEN Fail(st, "Unknown argument")
    ELSE LET typeName == MapGet(typeMap, argName).t
         IN  IF arg.kind \in {"null", "undefined"}
             THEN Fail(st, "TypeError: cannot read properties of null")
             ELSE IF arg.kind = "ref"
             THEN IF arg.graphqlTypeName # "" /\ arg.graphqlTypeName # typeName
                  THEN Fail(st, "Argument type conflict")
                  ELSE IF /\ MapHas(st.variableTypeMap, arg.name)
                          /\ MapGet(st.variableTypeMap, arg.name).t # typeName
                  THEN Fail(st, "Argument type conflict")
                  ELSE T([st EXCEPT !.variableTypeMap =
                              MapSet(@, [key |-> arg.name, t |-> typeName])],
                         argName \o ": $" \o arg.name)
             ELSE acceptLiteral(T(st, argName \o ": "), arg)

\* the body of the argument loop for a directive argument
acceptDirectiveArg(st, argName, arg) ==
    IF arg.kind \in {"null", "undefined"}
    THEN Fail(st, "TypeError: cannot read properties of null")
    ELSE IF arg.kind = "ref"
    THEN IF arg.graphqlTypeName = ""
         THEN Fail(st, "Directive argument requires graphqlTypeName")
         ELSE T([st EXCEPT !.variableTypeMap =
                     MapSet(@, [key |-> arg.name, t |-> arg.graphqlTypeName])],
                argName \o ": $" \o arg.name)
    ELSE acceptLiteral(T(st, argName \o ": "), arg)

\* the body of the argument loop: the separator, then the argument
acceptArg(st, argName, arg, typeMap) ==
    IF typeMap.def
    THEN acceptFieldArg([st EXCEPT !.w = separator(@, "")], argName, arg, typeMap.kv)
    ELSE acceptDirectiveArg([st EXCEPT !.w = separator(@, "")], argName, arg)

RECURSIVE acceptArgLoop(_, _, _, _)
acceptArgLoop(st, kv, typeMap, i) ==
    IF st.error # "" \/ i > Len(kv) THEN st
    ELSE acceptArgLoop(acceptArg(st, kv[i].key, kv[i].v, typeMap), kv, typeMap, i + 1)

\* the hasField scan of acceptArgs with its console.warn calls
scanOf(args, typeMap) ==
    IF typeMap.def THEN scanArgs(args.kv, typeMap.kv, 1, <<>>)
    ELSE [hasField |-> Len(args.kv) # 0, warned |-> <<>>]

\* acceptArgs after the scan found a declared key
acceptArgScope(st, args, typeMap, ml) ==
    IF ml.error # "" THEN Fail(st, ml.error)
    ELSE closeScope(acceptArgLoop(openScope(st, "arguments", ml.value),
                                  args.kv, typeMap, 1),
                    <<"">>)

\* acceptArgs(args, argGraphQLTypeMap): typeMap.def is FALSE for a directive
acceptArgs(st, args, typeMap) ==
    IF st.error # "" \/ ~args.def THEN st
    ELSE IF ~scanOf(args, typeMap).hasField
    THEN [st EXCEPT !.warnings = @ \o scanOf(args, typeMap).warned]
    ELSE acceptArgScope([st EXCEPT !.warnings = @ \o scanOf(args, typeMap).warned],
                        args, typeMap, isMultiLineJSON(args))

RECURSIVE acceptDirectivesFrom(_, _, _)
acceptDirectivesFrom(st, directives, i) ==
    IF st.error # "" \/ i > Len(directives) THEN st
    ELSE acceptDirectivesFrom(
             acceptArgs([st EXCEPT !.w = text(@, <<"", "@" \o directives[i].key>>)],
                        directives[i].args, NoArgs),
             directives, i + 1)

acceptDirectives(st, directives) == acceptDirectivesFrom(st, directives, 1)

\* the named-spread branch of acceptSelection: old is read once, before the loop
RECURSIVE registerFragment(_, _, _, _, _)
registerFragment(st, fragName, old, children, i) ==
    IF st.error # "" \/ i > Len(children) THEN st
    ELSE IF old # 0 /\ old # children[i]
    THEN Fail(st, "Conflict fragment name")
    ELSE registerFragment(
             [st EXCEPT !.namedFragmentMap =
                  MapSet(@, [key |-> fragName, sel |-> children[i]])],
             fragName, old, children, i + 1)

\* namedFragmentMap.get(fragmentName); 0 stands for undefined
oldFragment(st, fragName) ==
    IF MapHas(st.namedFragmentMap, fragName)
    THEN MapGet(st.namedFragmentMap, fragName).sel
    ELSE 0

\* the alias prefix of a field: written when the alias is set, non-empty
\* and different from the field's name
acceptAlias(st, field) ==
    IF /\ field.fieldOptionsValue.def
       /\ field.fieldOptionsValue.hasAlias
       /\ field.fieldOptionsValue.alias # ""
       /\ field.fieldOptionsValue.alias # field.name
    THEN T(st, field.fieldOptionsValue.alias \o ": ")
    ELSE st

acceptFieldArgs(st, field) ==
    IF field.argGraphQLTypes.def
    THEN acceptArgs(st, field.args, field.argGraphQLTypes)
    ELSE st

acceptFieldDirectives(st, field) ==
    IF field.fieldOptionsValue.def
    THEN acceptDirectives(st, field.fieldOptionsValue.directives)
    ELSE st

\* alias, name, arguments and directives of an entry that is not "..."
acceptFieldHead(st, field) ==
    IF field.name = "..." THEN st
    ELSE acceptFieldDirectives(
             acceptFieldArgs(T(acceptAlias(st, field), field.name), field), field)

RECURSIVE acceptSelection(_, _, _)
RECURSIVE acceptChildren(_, _, _, _)
RECURSIVE acceptFields(_, _, _, _)

\* the children of an entry: inlined, registered as a fragment, or a block
acceptFieldChildren(e, st, field) ==
    IF st.error # "" \/ Len(field.childSelections) = 0 THEN st
    ELSE IF field.name = "..." THEN acceptChildren(e, st, field.childSelections, 1)
    ELSE IF StartsWithSpread(field.name) /\ ~StartsWithOn(field.name)
    THEN registerFragment(st, FragmentNameOf(field.name),
                          oldFragment(st, FragmentNameOf(field.name)),
                          field.childSelections, 1)
    ELSE closeScope(acceptChildren(e, openScope(T(st, " "), "block", TRUE),
                                   field.childSelections, 1),
                    <<"">>)

\* t("\n") at the end of the loop body
endField(st) ==
    IF st.error # "" THEN st ELSE [st EXCEPT !.w = text(@, <<"", "">>)]

\* the body of the loop of acceptSelection for one entry of the field map
acceptFieldEntry(e, st, field) ==
    endField(acceptFieldChildren(e, acceptFieldHead(st, field), field))

acceptFields(e, st, fields, i) ==
    IF st.error # "" \/ i > Len(fields) THEN st
    ELSE acceptFields(e, acceptFieldEntry(e, st, fields[i]), fields, i + 1)

acceptChildren(e, st, children, i) ==
    IF st.error # "" \/ i > Len(children) THEN st
    ELSE acceptChildren(e, acceptSelection(e, st, children[i]), children, i + 1)

\* acceptSelection(sel): sel is 0 for an absent (undefined) selection
acceptSelection(e, st, sel) ==
    IF st.error # "" THEN st
    ELSE IF sel = 0 THEN Fail(st, "TypeError: cannot read properties of undefined")
    ELSE acceptFields(e, [st EXCEPT !.seenF = @ \cup {sel}],
                      fieldMap(e.h, e.fm, sel), 1)

\* ctx.acceptDirectives(sel.directiveMap); writer.scope(block, () =>
\* ctx.acceptSelection(sel)) with the suffix "\n"
acceptBlock(e, st, sel) ==
    closeScope(
        acceptSelection(e,
            openScope(acceptDirectives([st EXCEPT !.seenD = @ \cup {sel}],
                                       directiveMap(e.h, e.dm, sel)),
                      "block", TRUE),
            sel),
        <<"", "">>)

\* renderedFragments.add(name), used as the condition of the if: Set.add
\* returns the set itself, which is truthy whether or not name was in it
setAddIsTruthy(rendered, name) == TRUE

\* the body of the for loop of a draining round: one fragment definition
renderFragment(e, st, name, fragment) ==
    IF ~setAddIsTruthy(st.renderedFragments, name)
    THEN [st EXCEPT !.renderedFragments = @ \cup {name}]
    ELSE IF fragment = 0
    THEN Fail(st, "TypeError: cannot read properties of undefined")
    ELSE acceptBlock(e,
             T([st EXCEPT !.renderedFragments = @ \cup {name}],
               "fragment " \o name \o " on " \o schemaTypeOf(e.h, fragment) \o " "),
             fragment)

\* the for loop of one draining round over the previous context's fragments
RECURSIVE renderFragments(_, _, _, _)
renderFragments(e, st, fragmentMap, i) ==
    IF st.error # "" \/ i > Len(fragmentMap) THEN st
    ELSE renderFragments(e,
             renderFragment(e, st, fragmentMap[i].key, fragmentMap[i].sel),
             fragmentMap, i + 1)

\* the while (true) loop of serialize
RECURSIVE drain(_, _)
drain(e, st) ==
    IF st.error # "" \/ Len(st.namedFragmentMap) = 0 THEN st
    ELSE drain(e, renderFragments(e, [st EXCEPT !.namedFragmentMap = <<>>],
                                  st.namedFragmentMap, 1))

\* the while (true) loop of serialize that hands the pending fragments on
\* to the next context
drainRound_KeepsPending(e, st) ==
    renderFragments(e, st, st.namedFragmentMap, 1)

\* one round of the while (true) loop of serialize: a new context with an
\* empty namedFragmentMap renders the fragments of the previous one
drainRound(e, st) ==
    renderFragments(e, [st EXCEPT !.namedFragmentMap = <<>>], st.namedFragmentMap, 1)

\* no call of serialize is running
NotSerializing ==
    serializing = [active |-> FALSE, root |-> 0, body |-> NewSerializeState,
                   st |-> NewSerializeState, rounds |-> 0]

\* the SerializedResult from the state after the body and the state after
\* the draining rounds, or the error thrown; with the warnings logged and
\* the nodes whose getters were read on the way
SerializedResult(body, rest) ==
    [error |-> rest.error,
     text |-> IF rest.error = "" THEN body.w.result ELSE <<>>,
     fragmentText |-> IF rest.error = "" THEN rest.w.result ELSE <<>>,
     variableTypeMap |-> IF rest.error = "" THEN rest.variableTypeMap ELSE <<>>,
     warnings |-> rest.warnings,
     seenF |-> rest.seenF,
     seenD |-> rest.seenD]

\* the draining rounds write to a writer of their own
serializeFrom(e, body) ==
    SerializedResult(body, drain(e, [body EXCEPT !.w = NewTextBuilder]))

\* serialize(root)
serialize(e, root) == serializeFrom(e, acceptBlock(e, NewSerializeState, root))

(***************************************************************************)
(* The four builders of SelectionImpl.  Each returns the new node; a       *)
(* builder that throws returns no node and the message it throws.          *)
(***************************************************************************)
Built(node) == [error |-> "", node |-> node]

Thrown(message) == [error |-> message, node |-> RootNode("", <<>>)]

addField(n, field, args, child, optionsValue) ==
    Built(SelectionImpl(n, "", <<>>, FALSE, field, args, child, optionsValue,
                        NoDirective, NoArgs))

\* removeField without the guard on "__typename"
removeField_Unguarded(n, field) ==
    Built(SelectionImpl(n, "", <<>>, TRUE, field, NoArgs, 0, NoOptions,
                        NoDirective, NoArgs))

removeField(n, field) ==
    IF field = "__typename"
    THEN Thrown("__typename cannot be removed")
    ELSE Built(SelectionImpl(n, "", <<>>, TRUE, field, NoArgs, 0, NoOptions,
                             NoDirective, NoArgs))

\* fragmentName is [def, name]: def is FALSE for an absent name
NoName == [def |-> FALSE, name |-> ""]

Name(name) == [def |-> TRUE, name |-> name]

\* fragmentName.startsWith("on ")
StartsWithOnWord(name) == name \in {"on " \o t : t \in TypeNames}

\* addEmbeddable with the anonymous spread chosen by the receiver's list of
\* member types: the child's type is the receiver's or one of its members
addEmbeddable_MemberOfParent(h, n, child, fragmentName) ==
    IF fragmentName.def /\ fragmentName.name = ""
    THEN Thrown("fragmentName cannot be ''")
    ELSE IF fragmentName.def /\ StartsWithOnWord(fragmentName.name)
    THEN Thrown("fragmentName cannot start with 'on '")
    ELSE LET members == unionItemTypesOf(h, n)
             fieldName ==
                 IF fragmentName.def THEN NamedSpread(fragmentName.name)
                 ELSE IF schemaTypeOf(h, child) = schemaTypeOf(h, n)
                         \/ \E i \in 1..Len(members) :
                                members[i] = schemaTypeOf(h, child)
                 THEN "..."
                 ELSE InlineSpread(schemaTypeOf(h, child))
         IN  Built(SelectionImpl(n, "", <<>>, FALSE, fieldName, NoArgs, child,
                                 NoOptions, NoDirective, NoArgs))

addEmbeddable(h, n, child, fragmentName) ==
    IF fragmentName.def /\ fragmentName.name = ""
    THEN Thrown("fragmentName cannot be ''")
    ELSE IF fragmentName.def /\ StartsWithOnWord(fragmentName.name)
    THEN Thrown("fragmentName cannot start with 'on '")
    ELSE LET fieldName ==
                 IF fragmentName.def THEN NamedSpread(fragmentName.name)
                 ELSE IF schemaTypeOf(h, child) = schemaTypeOf(h, n)
                         \/ unionItemTypesOf(h, child) # <<>>
                 THEN "..."
                 ELSE InlineSpread(schemaTypeOf(h, child))
         IN  Built(SelectionImpl(n, "", <<>>, FALSE, fieldName, NoArgs, child,
                                 NoOptions, NoDirective, NoArgs))

addDirective(n, directive, directiveArgs) ==
    Built(SelectionImpl(n, "", <<>>, FALSE, "", NoArgs, 0, NoOptions,
                        [def |-> TRUE, name |-> directive], directiveArgs))

(***************************************************************************)
(* State changes shared by the actions.                                    *)
(***************************************************************************)
Unset == [set |-> FALSE, map |-> <<>>]

\* no memoized _result
NoResult ==
    [set |-> FALSE,
     res |-> [error |-> "", text |-> <<>>, fragmentText |-> <<>>,
              variableTypeMap |-> <<>>, warnings |-> <<>>, seenF |-> {},
              seenD |-> {}]]

\* the record of an operation: its name, receiver, string inputs, the node
\* it returned (0 when it threw), the message it threw ("" when none) and
\* the argument names it passed to console.warn
Op(op, recv, names, node, error) ==
    [op |-> op, recv |-> recv, names |-> names, node |-> node, error |-> error,
     warned |-> <<>>]

\* allocate the nodes of ns, in order, at the end of the heap
Allocate(ns) ==
    /\ nodes' = nodes \o ns
    /\ fieldMapMemo' = fieldMapMemo \o [i \in 1..Len(ns) |-> Unset]
    /\ directiveMapMemo' = directiveMapMemo \o [i \in 1..Len(ns) |-> Unset]
    /\ resultMemo' = resultMemo \o [i \in 1..Len(ns) |-> NoResult]

\* Return for builders that write their payload into the receiver and return it
Return_IntoReceiver(op, n, names, r) ==
    IF r.error = ""
    THEN /\ nodes' = [nodes EXCEPT ![n] = [r.node EXCEPT !.ctx = nodes[n].ctx,
                                                         !.schemaType = nodes[n].schemaType]]
         /\ UNCHANGED <<fieldMapMemo, directiveMapMemo, resultMemo>>
         /\ last' = Op(op, n, names, n, "")
    ELSE /\ UNCHANGED <<nodes, fieldMapMemo, directiveMapMemo, resultMemo>>
         /\ last' = Op(op, n, names, 0, r.error)

\* the outcome of a builder call r on receiver n
Return(op, n, names, r) ==
    IF r.error = ""
    THEN /\ Allocate(<<r.node>>)
         /\ last' = Op(op, n, names, Len(nodes) + 1, "")
    ELSE /\ UNCHANGED <<nodes, fieldMapMemo, directiveMapMemo, resultMemo>>
         /\ last' = Op(op, n, names, 0, r.error)

NodeIds == 1..Len(nodes)

(***************************************************************************)
(* Builder actions and the memoizing getters.                              *)
(***************************************************************************)
AddField(n, field, args, child, optionsValue) ==
    Return("addField", n, <<field>>, addField(n, field, args, child, optionsValue))

RemoveField(n, field) ==
    Return("removeField", n, <<field>>, removeField(n, field))

AddEmbeddable(n, child, fragmentName) ==
    Return("addEmbeddable", n, <<fragmentName.name>>,
           addEmbeddable(nodes, n, child, fragmentName))

AddDirective(n, directive, directiveArgs) ==
    Return("addDirective", n, <<directive>>,
           addDirective(n, directive, directiveArgs))

GetFieldMap(n) ==
    /\ fieldMapMemo' = [fieldMapMemo EXCEPT
                            ![n] = [set |-> TRUE, map |-> fieldMap(nodes, fieldMapMemo, n)]]
    /\ UNCHANGED <<nodes, directiveMapMemo, resultMemo, last>>

GetDirectiveMap(n) ==
    /\ directiveMapMemo' = [directiveMapMemo EXCEPT
                            ![n] = [set |-> TRUE,
                                    map |-> directiveMap(nodes, directiveMapMemo, n)]]
    /\ UNCHANGED <<nodes, fieldMapMemo, resultMemo, last>>

\* the memo of a getter after the nodes of seen were read through it: maps
\* is the map of every node, as the getter builds it
Memoized(memo, seen, maps) ==
    [i \in 1..Len(memo) |->
        IF i \in seen /\ ~memo[i].set THEN [set |-> TRUE, map |-> maps[i]]
        ELSE memo[i]]

\* Remember without the assignment to _result
Remember_Forgets(n, r) ==
    /\ fieldMapMemo' = Memoized(fieldMapMemo, r.seenF,
                                [i \in NodeIds |-> buildFieldMap(nodes, i)])
    /\ directiveMapMemo' = Memoized(directiveMapMemo, r.seenD,
                                    [i \in NodeIds |-> buildDirectiveMap(nodes, i)])
    /\ last' = [Op("serialize", n, <<>>, IF r.error = "" THEN n ELSE 0, r.error)
                    EXCEPT !.warned = r.warnings]
    /\ UNCHANGED <<nodes, resultMemo>>

\* (this._result ??= serialize(this)) with the result r: a result is kept,
\* an error is thrown again by the next call; the getters the serializer
\* read have memoized their maps
Remember(n, r) ==
    /\ resultMemo' = IF r.error = ""
                     THEN [resultMemo EXCEPT ![n] = [set |-> TRUE, res |-> r]]
                     ELSE resultMemo
    /\ fieldMapMemo' = IF resultMemo[n].set THEN fieldMapMemo
                       ELSE Memoized(fieldMapMemo, r.seenF,
                                     [i \in NodeIds |-> buildFieldMap(nodes, i)])
    /\ directiveMapMemo' = IF resultMemo[n].set THEN directiveMapMemo
                           ELSE Memoized(directiveMapMemo, r.seenD,
                                         [i \in NodeIds |-> buildDirectiveMap(nodes, i)])
    /\ last' = [Op("serialize", n, <<>>, IF r.error = "" THEN n ELSE 0, r.error)
                    EXCEPT !.warned = IF resultMemo[n].set THEN <<>> ELSE r.warnings]
    /\ UNCHANGED nodes

\* toString / toFragmentString / variableTypeMap
Serialize(n) ==
    Remember(n, IF resultMemo[n].set THEN resultMemo[n].res
                ELSE serialize(Env(nodes, fieldMapMemo, directiveMapMemo), n))

(***************************************************************************)
(* Spec: the builders applied to any node of the heap (fan-out), with the  *)
(* memoized views read at any time.                                        *)
(***************************************************************************)
Init ==
    /\ nodes = <<RootNode("Query", <<>>)>>
    /\ fieldMapMemo = <<Unset>>
    /\ directiveMapMemo = <<Unset>>
    /\ resultMemo = <<NoResult>>
    /\ last = Op("createSelection", 0, <<"Query">>, 1, "")
    /\ SchemaStartup /\ PluginStartup /\ WriterStartup /\ NotSerializing

Next ==
    /\ UNCHANGED <<schemaVars, pluginVars, writerVars, drainVars>>
    /\ \E n \in NodeIds :
           \/ /\ Len(nodes) < MaxNodes
              /\ \/ AddField(n, "id", NoArgs, 0, NoOptions)
                 \/ RemoveField(n, "id")
                 \/ \E c \in NodeIds, f \in {NoName, Name("F")} : AddEmbeddable(n, c, f)
                 \/ AddDirective(n, "live", NoArgs)
           \/ GetFieldMap(n)
           \/ GetDirectiveMap(n)
           \/ Serialize(n)

Spec == Init /\ [][Next]_vars

EnvNow == Env(nodes, fieldMapMemo, directiveMapMemo)

\* what a caller can observe of node n: its payload and what its getters
\* and its serialization return
Observed(h, fm, dm, rm, n) ==
    [node |-> h[n],
     fieldMap |-> fieldMap(h, fm, n),
     directiveMap |-> directiveMap(h, dm, n),
     result |-> IF rm[n].set THEN rm[n].res ELSE serialize(Env(h, fm, dm), n)]

\* C3: no builder call changes the receiver or any other existing node:
\* across every step each existing node keeps its payload, its field map,
\* its directive map and its serialization, whether or not these views
\* were memoized before the step.
C3_BuildersKeepExistingNodes ==
    [][\A n \in NodeIds :
          LET before == Observed(nodes, fieldMapMemo, directiveMapMemo, resultMemo, n)
              after == Observed(nodes', fieldMapMemo', directiveMapMemo', resultMemo', n)
          IN  /\ after.node = before.node
              /\ after.fieldMap = before.fieldMap
              /\ after.directiveMap = before.directiveMap
              /\ after.result.error = before.result.error
              /\ after.result.text = before.result.text
              /\ after.result.fragmentText = before.result.fragmentText
              /\ after.result.variableTypeMap = before.result.variableTypeMap]_vars

\* a base whose field map was memoized while empty, extended independently
\* by an added field and by an embedded fragment
C3_Witness ==
    /\ Len(nodes) = 3
    /\ nodes[2].ctx = 1 /\ nodes[3].ctx = 1
    /\ nodes[2].field = "id" /\ nodes[3].field = NamedSpread("F")
    /\ fieldMapMemo[1].set /\ fieldMapMemo[1].map = <<>>
    /\ resultMemo[1].set
    /\ Len(buildFieldMap(nodes, 2)) = 1 /\ Len(buildFieldMap(nodes, 3)) = 1

(***************************************************************************)
(* SpecFold: one chain of addField/removeField operations on a base node.  *)
(***************************************************************************)
FoldFields == {"id", "title"}
FoldAlias == "x"
FoldKeys == FoldFields \cup {FoldAlias}
FoldArgs == {NoArgs, Args(<<[key |-> "limit", v |-> Literal("1")]>>)}
FoldOptions == {NoOptions, AliasOptions(FoldAlias)}

NextFold ==
    /\ UNCHANGED <<schemaVars, pluginVars, writerVars, drainVars>>
    /\ /\ Len(nodes) < MaxChain
       /\ \/ \E f \in FoldFields, a \in FoldArgs, c \in {0, 1}, o \in FoldOptions :
                 AddField(Len(nodes), f, a, c, o)
          \/ \E f \in FoldKeys : RemoveField(Len(nodes), f)

SpecFold == Init /\ [][NextFold]_vars

\* the positions in n's chain (oldest first) of the operations on key
opsOnKey(n, key) ==
    LET ns == chainNodes(nodes, n)
    IN  {i \in 1..Len(ns) : keyOf(nodes[ns[i]]) = key}

SetMax(S) == CHOOSE x \in S : \A y \in S : y <= x

\* the chain node of the most recent operation on key (the set is not empty)
lastOpOnKey(n, key) == chainNodes(nodes, n)[SetMax(opsOnKey(n, key))]

\* key survives in n's chain: its most recent operation is an add
survives(n, key) ==
    /\ opsOnKey(n, key) # {}
    /\ ~nodes[lastOpOnKey(n, key)].negative

\* C1: the field map of every node holds exactly the keys (alias, else field
\* name) whose most recent operation in the chain is an add, each mapped to
\* the name, args, options and child of that add; and an add of a key that
\* is not yet present grows the map by exactly one entry.
C1_FoldKeepsLastAdd ==
    \A n \in NodeIds :
        LET m == buildFieldMap(nodes, n)
        IN  /\ MapKeys(m) = {k \in FoldKeys : survives(n, k)}
            /\ Len(m) = Cardinality(MapKeys(m))
            /\ \A k \in MapKeys(m) :
                   LET e == MapGet(m, k)
                       op == nodes[lastOpOnKey(n, k)]
                   IN  /\ e.name = op.field
                       /\ e.args = op.args
                       /\ e.fieldOptionsValue = op.fieldOptionsValue
                       /\ e.childSelections =
                              IF op.child = 0 THEN <<>> ELSE <<op.child>>
            /\ (/\ nodes[n].ctx # 0
                /\ ~nodes[n].negative
                /\ ~MapHas(buildFieldMap(nodes, nodes[n].ctx), keyOf(nodes[n])))
               => Len(m) = Len(buildFieldMap(nodes, nodes[n].ctx)) + 1

\* a chain that adds a key, removes it and adds it again under an alias
C1_Witness ==
    /\ Len(nodes) = 4
    /\ ~nodes[2].negative /\ nodes[2].field = "id"
    /\ nodes[3].negative /\ nodes[3].field = "id"
    /\ ~nodes[4].negative /\ nodes[4].field = "title" /\ keyOf(nodes[4]) = "x"
    /\ MapKeys(buildFieldMap(nodes, 4)) = {"x"}

\* the position in n's chain of the surviving add of key
survivingAdd(n, key) == SetMax(opsOnKey(n, key))

\* C2: the iteration order of the field map is the order of the surviving
\* add operations in the chain (add a, add b, add a gives b, a).
C2_OrderOfSurvivingAdds ==
    \A n \in NodeIds :
        LET m == buildFieldMap(nodes, n)
        IN  \A i, j \in 1..Len(m) :
                i < j => survivingAdd(n, m[i].key) < survivingAdd(n, m[j].key)

(***************************************************************************)
(* The resolver (proxy.ts).  A call returns the nodes it builds, in the    *)
(* order it builds them (the last one is the node handed back), or the     *)
(* message it throws.  h is the heap the call starts from; a node built by *)
(* the call gets the next free index.                                      *)
(***************************************************************************)
Nodes(ns) == [error |-> "", nodes |-> ns]

Throws(message) == [error |-> message, nodes |-> <<>>]

\* $omit(...fieldNames): current = current.removeField(fieldName), in turn
RECURSIVE omitFrom(_, _, _, _, _)
omitFrom(h, current, fieldNames, i, built) ==
    IF i > Len(fieldNames) THEN Nodes(built)
    ELSE LET r == removeField(current, fieldNames[i])
         IN  IF r.error # "" THEN Throws(r.error)
             ELSE omitFrom(h, Len(h) + Len(built) + 1, fieldNames, i + 1,
                           Append(built, r.node))

omit(h, n, fieldNames) == omitFrom(h, n, fieldNames, 1, <<>>)

\* $alias(alias) with the removeField call lost
alias_KeepsOldKey(h, n, name) ==
    IF lastField(h, n) = ""
    THEN Throws("$alias requires a preceding field selection")
    ELSE Nodes(<<addField(n, lastField(h, n), NoArgs, 0, AliasOptions(name)).node>>)

\* $alias without the check of lastField
alias_Unguarded(h, n, name) ==
    LET r == removeField(n, lastField(h, n))
    IN  IF r.error # "" THEN Throws(r.error)
        ELSE Nodes(<<r.node,
                     addField(Len(h) + 1, lastField(h, n), NoArgs, 0,
                              AliasOptions(name)).node>>)

\* $alias(alias): remove the last field and add it again with the alias
alias(h, n, name) ==
    IF lastField(h, n) = ""
    THEN Throws("$alias requires a preceding field selection")
    ELSE LET r == removeField(n, lastField(h, n))
         IN  IF r.error # "" THEN Throws(r.error)
             ELSE Nodes(<<r.node,
                          addField(Len(h) + 1, lastField(h, n), NoArgs, 0,
                                   AliasOptions(name)).node>>)

\* the auto-parameterized bundle with every declared argument taken as required
autoArgs_AllArguments(argMap) ==
    IF Len(argMap) = 0 THEN NoArgs
    ELSE Args([i \in 1..Len(argMap) |->
                  [key |-> argMap[i].key, v |-> ParameterRefOf(argMap[i].key, "")]])

\* the bundle the resolver synthesizes when the caller passes none: one
\* ParameterRef.of(name) per argument whose type ends in "!", or no bundle
autoArgs(argMap) ==
    LET required == SelectSeq(argMap, LAMBDA a : EndsWithBang(a.t))
    IN  IF Len(required) = 0 THEN NoArgs
        ELSE Args([i \in 1..Len(required) |->
                      [key |-> required[i].key,
                       v |-> ParameterRefOf(required[i].key, "")]])

\* a builder callback that selects the scalar fields of names, in turn, on
\* the fresh root it is given (the node at index root) and returns the result
RECURSIVE callbackNodes(_, _, _)
callbackNodes(root, names, i) ==
    IF i > Len(names) THEN <<>>
    ELSE <<addField(root + i - 1, names[i], NoArgs, 0, NoOptions).node>>
             \o callbackNodes(root, names, i + 1)

\* association with the callback given the receiver instead of a new
\* selection of the target type
association_CallbackOnReceiver(h, n, p, args, child) ==
    LET field == SchemaField(schemaTypeOf(h, n), p)
        targetTypeName == field.targetTypeName
        made == IF child.kind = "callback"
                THEN <<addField(n, "id", NoArgs, 0, NoOptions).node>>
                ELSE <<>>
        childSelection == IF child.kind = "callback" THEN Len(h) + 1
                          ELSE IF child.kind = "selection" THEN child.node
                          ELSE 0
        bundle == IF args.def THEN args ELSE autoArgs(field.argGraphQLTypeMap)
    IN  IF targetTypeName = "" THEN Throws("Field has no target type")
        ELSE IF targetTypeName \notin TypeNames
        THEN Throws("Cannot resolve schema type")
        ELSE IF childSelection = 0 THEN Throws("Field requires a child selection")
        ELSE Nodes(Append(made, addField(n, p, bundle, childSelection, NoOptions).node))

\* the function an association field returns, called with an optional
\* argument bundle and a child: child.kind is "selection" (the ready node
\* child.node), "callback" (selecting child.names) or "none"
association(h, n, p, args, child) ==
    LET field == SchemaField(schemaTypeOf(h, n), p)
        targetTypeName == field.targetTypeName
        fresh == Len(h) + 1
        made == IF child.kind = "callback"
                THEN <<RootNode(targetTypeName, <<>>)>>
                         \o callbackNodes(fresh, child.names, 1)
                ELSE <<>>
        childSelection == IF child.kind = "callback" THEN Len(h) + Len(made)
                          ELSE IF child.kind = "selection" THEN child.node
                          ELSE 0
        bundle == IF args.def THEN args ELSE autoArgs(field.argGraphQLTypeMap)
    IN  IF targetTypeName = "" THEN Throws("Field has no target type")
        ELSE IF targetTypeName \notin TypeNames
        THEN Throws("Cannot resolve schema type")
        ELSE IF childSelection = 0 THEN Throws("Field requires a child selection")
        ELSE Nodes(Append(made, addField(n, p, bundle, childSelection, NoOptions).node))

\* a scalar field with arguments, called with an optional argument bundle
fieldCall(h, n, p, args) ==
    LET field == SchemaField(schemaTypeOf(h, n), p)
        bundle == IF args.def THEN args ELSE autoArgs(field.argGraphQLTypeMap)
    IN  Nodes(<<addField(n, p, bundle, 0, NoOptions).node>>)

\* the field names of the registered types
FieldNames == {"id", "title", "rank", "post", "posts", "author"}

\* the fields of n's type by the kind of member the resolver exposes
PlainScalars(h, n) ==
    {p \in FieldNames :
        /\ HasSchemaField(schemaTypeOf(h, n), p)
        /\ ~SchemaField(schemaTypeOf(h, n), p).isFunction}

Associations(h, n) ==
    {p \in FieldNames :
        /\ HasSchemaField(schemaTypeOf(h, n), p)
        /\ (SchemaField(schemaTypeOf(h, n), p).isAssociation
            \/ SchemaField(schemaTypeOf(h, n), p).targetTypeName # "")}

FunctionScalars(h, n) ==
    {p \in FieldNames :
        /\ HasSchemaField(schemaTypeOf(h, n), p)
        /\ SchemaField(schemaTypeOf(h, n), p).isFunction
        /\ p \notin Associations(h, n)}

\* the outcome of a resolver call r on receiver n
Resolve(op, n, names, r) ==
    IF r.error = ""
    THEN /\ Allocate(r.nodes)
         /\ last' = Op(op, n, names, Len(nodes) + Len(r.nodes), "")
    ELSE /\ UNCHANGED <<nodes, fieldMapMemo, directiveMapMemo, resultMemo>>
         /\ last' = Op(op, n, names, 0, r.error)

SelectScalar(n, p) ==
    /\ p \in PlainScalars(nodes, n)
    /\ Resolve("scalar", n, <<p>>, Nodes(<<addField(n, p, NoArgs, 0, NoOptions).node>>))

CallAssociation(n, p, args, child) ==
    /\ p \in Associations(nodes, n)
    /\ Resolve("association", n, <<p, IF args.def THEN "bundle" ELSE "", child.kind>>,
               association(nodes, n, p, args, child))

CallField(n, p, args) ==
    /\ p \in FunctionScalars(nodes, n)
    /\ Resolve("field", n, <<p, IF args.def THEN "bundle" ELSE "">>,
               fieldCall(nodes, n, p, args))

Omit(n, fieldNames) == Resolve("$omit", n, fieldNames, omit(nodes, n, fieldNames))

Alias(n, a) == Resolve("$alias", n, <<a>>, alias(nodes, n, a))

(***************************************************************************)
(* SpecProxy: one selection chain built through the resolver, starting     *)
(* from the root selection of Query; each call is made on the selection    *)
(* the previous call returned, which may be serialized first.  An error    *)
(* thrown by a call is not caught: it ends the run.                        *)
(***************************************************************************)
MaxProxyNodes == 4

OmitNames == {<<"id">>, <<"__typename">>, <<"title", "__typename">>, <<"id", "title">>}

ProxyBundles(p) ==
    IF p = "posts" THEN {NoArgs}
    ELSE {NoArgs, Args(<<[key |-> "id", v |-> Literal("1")]>>)}

ProxyChildren ==
    {[kind |-> "none", node |-> 0, names |-> <<>>],
     [kind |-> "callback", node |-> 0, names |-> <<"id">>],
     [kind |-> "selection", node |-> 1, names |-> <<>>]}

NextProxy ==
    /\ UNCHANGED <<schemaVars, pluginVars, writerVars, drainVars>>
    /\ LET n == Len(nodes)
       IN  /\ last.error = ""
           /\ \/ /\ \/ \E p \in {"id", "title"} : SelectScalar(n, p)
                    \/ \E p \in {"post", "posts"} :
                          \E a \in ProxyBundles(p), c \in ProxyChildren :
                             CallAssociation(n, p, a, c)
                    \/ \E a \in ProxyBundles("rank") : CallField(n, "rank", a)
                    \/ \E names \in OmitNames : Omit(n, names)
                    \/ Alias(n, "x")
                 /\ Len(nodes') <= MaxProxyNodes
              \/ Serialize(n)

\* createSelection(schemaType) for either registered type
InitProxy ==
    \E t \in TypeNames :
        /\ nodes = <<RootNode(t, <<>>)>>
        /\ fieldMapMemo = <<Unset>>
        /\ directiveMapMemo = <<Unset>>
        /\ resultMemo = <<NoResult>>
        /\ last = Op("createSelection", 0, <<t>>, 1, "")
        /\ SchemaStartup /\ PluginStartup /\ WriterStartup /\ NotSerializing

SpecProxy == InitProxy /\ [][NextProxy]_vars

\* the names a call was made with, as a set
NamesOf(op) == {op.names[i] : i \in 1..Len(op.names)}

\* the tokens a and b follow one another in the text
Adjacent(tokens, a, b) ==
    \E j \in 1..(Len(tokens) - 1) : tokens[j] = a /\ tokens[j + 1] = b

C7_AutoParameterizedAssociation ==
    (last.op = "association" /\ last.error = "" /\ last.names[2] = "") =>
        LET declared == SchemaField(schemaTypeOf(nodes, last.recv),
                                    last.names[1]).argGraphQLTypeMap
            required == {i \in 1..Len(declared) : EndsWithBang(declared[i].t)}
            given == nodes[last.node].args
            r == serialize(EnvNow, last.node)
        IN  /\ given.def = (required # {})
            /\ {given.kv[i] : i \in 1..Len(given.kv)}
                  = {[key |-> declared[i].key,
                      v |-> ParameterRefOf(declared[i].key, "")] : i \in required}
            /\ r.error = "" =>
                  \A i \in required :
                     /\ MapHas(r.variableTypeMap, declared[i].key)
                     /\ MapGet(r.variableTypeMap, declared[i].key).t = declared[i].t
                     /\ \E j \in 1..Len(r.text) :
                           r.text[j] = declared[i].key \o ": $" \o declared[i].key

C7_Witness ==
    /\ last.op = "association"
    /\ last.names[1] = "post" /\ last.names[2] = ""
    /\ last.error = ""
    /\ nodes[last.node].args = Args(<<[key |-> "id", v |-> ParameterRefOf("id", "")]>>)
    /\ serialize(EnvNow, last.node).variableTypeMap = <<[key |-> "id", t |-> "ID!"]>>
    /\ \E j \in 1..Len(serialize(EnvNow, last.node).text) :
          serialize(EnvNow, last.node).text[j] = "id: $id"

\* C8: $alias("x") on the selection returned by selecting a plain scalar
\* field f (x different from f) returns a selection whose field map has an
\* entry keyed "x" for the field f and no entry keyed f, and whose text, when
\* it serializes, has "x: f".
C8_AliasRenamesLastField ==
    (/\ last.op = "$alias"
     /\ last.error = ""
     /\ ~nodes[last.recv].negative
     /\ nodes[last.recv].field \in PlainScalars(nodes, last.recv)
     /\ nodes[last.recv].fieldOptionsValue = NoOptions
     /\ last.names[1] # nodes[last.recv].field) =>
        LET f == nodes[last.recv].field
            x == last.names[1]
            map == buildFieldMap(nodes, last.node)
            r == serialize(EnvNow, last.node)
        IN  /\ MapHas(map, x)
            /\ MapGet(map, x).name = f
            /\ ~MapHas(map, f)
            /\ r.error = "" => Adjacent(r.text, x \o ": ", f)

C8_Witness ==
    /\ last.op = "$alias"
    /\ last.error = ""
    /\ nodes[last.recv].field = "title"
    /\ ~nodes[last.recv].negative
    /\ MapKeys(buildFieldMap(nodes, last.node)) = {"x"}
    /\ Adjacent(serialize(EnvNow, last.node).text, "x: ", "title")


(***************************************************************************)
(* SpecSerialize: one chain built on the root selection of Query with      *)
(* argument bundles, directives and fragments, any earlier selection       *)
(* serving as a child, and the newest selection serialized at any time.    *)
(***************************************************************************)
MaxSerializeNodes == 3

Variable == ParameterRefOf("v", "")

TypedVariable == ParameterRefOf("v", "Boolean!")

SerializeBundles ==
    {NoArgs,
     Args(<<[key |-> "id", v |-> Variable]>>),
     Args(<<[key |-> "id", v |-> Literal("1")]>>),
     Args(<<[key |-> "id", v |-> Literal("1")], [key |-> "zz", v |-> Literal("2")]>>),
     Args(<<[key |-> "zz", v |-> Literal("2")]>>)}

SerializeOptions ==
    {NoOptions,
     DirectiveOptions("include", Args(<<[key |-> "if", v |-> TypedVariable]>>))}

NextSerialize ==
    /\ UNCHANGED <<schemaVars, pluginVars, writerVars, drainVars>>
    /\ LET n == Len(nodes)
       IN  \/ /\ Len(nodes) < MaxSerializeNodes
              /\ \/ AddField(n, "id", NoArgs, 0, NoOptions)
                 \/ AddField(n, "rank", Args(<<[key |-> "id", v |-> Variable]>>), 0, NoOptions)
                 \/ \E a \in SerializeBundles, c \in NodeIds, o \in SerializeOptions :
                       AddField(n, "post", a, c, o)
                 \/ \E c \in NodeIds, f \in {NoName, Name("F"), Name("G")} :
                       AddEmbeddable(n, c, f)
                 \/ AddDirective(n, "live", NoArgs)
           \/ Serialize(n)

SpecSerialize == Init /\ [][NextSerialize]_vars

\* the children of the entries of n's field map
ChildrenOf(h, n) ==
    LET map == buildFieldMap(h, n)
    IN  UNION {{map[i].childSelections[j] : j \in DOMAIN map[i].childSelections} :
                  i \in 1..Len(map)} \ {0}

\* the selections the serialization of n walks through: n and, in turn, the
\* children of every entry of their field maps
RECURSIVE Walked(_, _)
Walked(h, n) == {n} \cup UNION {Walked(h, c) : c \in ChildrenOf(h, n)}

\* the result of the serialization that just returned
Serialized == last.op = "serialize" /\ last.error = ""

Result == resultMemo[last.recv].res

\* the tokens of both texts of a result
TokensOf(r) ==
    {r.text[j] : j \in 1..Len(r.text)} \cup {r.fragmentText[j] : j \in 1..Len(r.fragmentText)}

\* the positions of the fragments text that open a definition of fragment f
DefinitionsOf(r, f) ==
    {j \in 1..Len(r.fragmentText) :
        \E t \in TypeNames : r.fragmentText[j] = "fragment " \o f \o " on " \o t \o " "}

\* the selections each fragment name is bound to in the tree under n
Bindings(h, n) ==
    UNION {LET map == buildFieldMap(h, m)
           IN  UNION {{[name |-> map[i].name, sel |-> c] : c \in ChildrenOf(h, m)
                           \cap {map[i].childSelections[j] : j \in DOMAIN map[i].childSelections}} :
                         i \in {i \in 1..Len(map) : map[i].name \in NamedSpreads}} :
             m \in Walked(h, n)}

\* C5: in the result of a serialization of a tree that binds each fragment
\* name to one selection, every fragment that is spread somewhere in the
\* texts is defined exactly once in the fragments text, and no fragment is
\* defined more than once.
C5_FragmentEmittedOnce ==
    (/\ Serialized
     /\ \A a, b \in Bindings(nodes, last.recv) : a.name = b.name => a.sel = b.sel) =>
        \A f \in FragmentNames :
            /\ Cardinality(DefinitionsOf(Result, f)) <= 1
            /\ NamedSpread(f) \in TokensOf(Result) => DefinitionsOf(Result, f) # {}

\* C6: a serialization succeeds only if no fragment name is bound to two
\* selections with different field maps anywhere in the tree, and it
\* raises the conflict error only if some name is bound to two selections.
C6_FragmentConflictRaised ==
    /\ Serialized =>
          \A a, b \in Bindings(nodes, last.recv) :
             a.name = b.name => buildFieldMap(nodes, a.sel) = buildFieldMap(nodes, b.sel)
    /\ (last.op = "serialize" /\ last.error = "Conflict fragment name") =>
          \E a, b \in Bindings(nodes, last.recv) : a.name = b.name /\ a.sel # b.sel

\* the variables of a bundle whose values are deferred-variable references
RefsOf(args) == {i \in 1..Len(args.kv) : args.kv[i].v.kind = "ref"}

\* the uses of variables by the entries of n's field map: a field argument
\* uses its variable at the argument's declared type, a directive argument
\* at the type the reference carries
UsesIn(h, n) ==
    LET map == buildFieldMap(h, n)
    IN  UNION {
          {[name |-> map[i].args.kv[k].v.name,
            t |-> MapGet(map[i].argGraphQLTypes.kv, map[i].args.kv[k].key).t] :
              k \in {k \in RefsOf(map[i].args) :
                        /\ map[i].argGraphQLTypes.def
                        /\ MapHas(map[i].argGraphQLTypes.kv, map[i].args.kv[k].key)}}
          \cup
          UNION {{[name |-> map[i].fieldOptionsValue.directives[d].args.kv[k].v.name,
                   t |-> map[i].fieldOptionsValue.directives[d].args.kv[k].v.graphqlTypeName] :
                     k \in RefsOf(map[i].fieldOptionsValue.directives[d].args)} :
                   d \in DOMAIN map[i].fieldOptionsValue.directives} :
          i \in 1..Len(map)}

\* C9: when a serialization succeeds, its variable-type map gives every
\* variable used in the tree the type of each of its uses (so two uses of
\* one name at different types make the serialization fail).
C9_VariableTypesAgree ==
    Serialized =>
        \A m \in Walked(nodes, last.recv) :
            \A u \in UsesIn(nodes, m) :
                /\ MapHas(Result.variableTypeMap, u.name)
                /\ MapGet(Result.variableTypeMap, u.name).t = u.t

\* the keys of the bundles of n's entries that their fields do not declare
UndeclaredKeys(h, n) ==
    LET map == buildFieldMap(h, n)
    IN  UNION {{map[i].args.kv[k].key : k \in 1..Len(map[i].args.kv)}
                  \ MapKeys(map[i].argGraphQLTypes.kv) :
                  i \in {i \in 1..Len(map) : map[i].argGraphQLTypes.def}}

\* C10: a serialization never fails over an undeclared key of a bundle; it
\* logs a warning for the key and leaves it out of the argument list.
C10_UndeclaredKeysTolerated ==
    (last.op = "serialize" /\ UndeclaredKeys(nodes, last.recv) # {}) =>
        /\ last.error # "Unknown argument"
        /\ Serialized =>
              \A k \in UndeclaredKeys(nodes, last.recv) :
                 /\ \E j \in 1..Len(Result.warnings) : Result.warnings[j] = k
                 /\ (k \o ": ") \notin TokensOf(Result)

(***************************************************************************)
(* SpecMethods: one selection chain built through the resolver's members   *)
(* (scalar fields, $omit, $alias, and reads of names the resolver does not *)
(* know), from the root selection of either type.  An error thrown by a    *)
(* call is not caught: it ends the run.                                    *)
(***************************************************************************)
MaxMethodNodes == 4

\* the names proxyHandler.get resolves to methods
BuiltIns == {"$omit", "$alias", "$directive", "$include", "$skip", "$on"}

\* names read on a selection that are no built-in: "post" is a field of
\* Query only, "nope" of no type
MemberNames == {"nope", "post"}

\* the fall-through of proxyHandler.get for a name p that is neither a
\* built-in nor a field of the schema type: Reflect.get(target, p, target),
\* which is undefined for a name the SelectionImpl does not have; nothing is
\* thrown and no node is built
GetMember(n, p) ==
    /\ p \notin BuiltIns
    /\ ~HasSchemaField(schemaTypeOf(nodes, n), p)
    /\ last' = Op("get", n, <<p>>, 0, "")
    /\ UNCHANGED <<nodes, fieldMapMemo, directiveMapMemo, resultMemo>>

\* $directive(name, args): a selection-level directive when the receiver
\* has no last field; else the last field is removed and added again with
\* the directive as its options
directive(h, n, name, args) ==
    IF lastField(h, n) = ""
    THEN Nodes(<<addDirective(n, name, args).node>>)
    ELSE LET r == removeField(n, lastField(h, n))
         IN  IF r.error # "" THEN Throws(r.error)
             ELSE Nodes(<<r.node,
                          addField(Len(h) + 1, lastField(h, n), NoArgs, 0,
                                   DirectiveOptions(name, args)).node>>)

\* the directiveArgs of $include(condition) and $skip(condition)
IfArgs(condition) == Args(<<[key |-> "if", v |-> condition]>>)

Directive(n, name, args) ==
    Resolve("$directive", n, <<name>>, directive(nodes, n, name, args))

Include(n, condition) ==
    Resolve("$include", n, <<"include">>,
            directive(nodes, n, "include", IfArgs(condition)))

Skip(n, condition) ==
    Resolve("$skip", n, <<"skip">>, directive(nodes, n, "skip", IfArgs(condition)))

NextMethods ==
    /\ UNCHANGED <<schemaVars, pluginVars, writerVars, drainVars>>
    /\ LET n == Len(nodes)
       IN  /\ last.error = ""
           /\ \/ /\ \/ \E p \in {"id", "title"} : SelectScalar(n, p)
                    \/ \E names \in OmitNames : Omit(n, names)
                    \/ Alias(n, "x")
                    \/ Directive(n, "live", NoArgs)
                    \/ Include(n, Literal("true"))
                    \/ Skip(n, Literal("true"))
                 /\ Len(nodes') <= MaxMethodNodes
              \/ \E p \in MemberNames : GetMember(n, p)

SpecMethods == InitProxy /\ [][NextMethods]_vars

\* C11 (as stated): reading on a selection a name that is neither a
\* built-in nor a field of its schema type raises an error at that read,
\* and yields no node.
C11_UnknownNameRaises ==
    (last.op = "get") => (last.error # "" /\ last.node = 0)

(***************************************************************************)
(* C12, under SpecSerialize.                                               *)
(***************************************************************************)
\* the parts of a serialization its callers read: toString,
\* toFragmentString and variableTypeMap
Returned(res) ==
    [text |-> res.text, fragmentText |-> res.fragmentText,
     variableTypeMap |-> res.variableTypeMap]

\* C12: a serialization that succeeds is kept on the node; a later call on
\* that node returns the kept result without computing anything (no getter
\* is read, no warning is logged again), and the kept body text, fragments
\* text and variable-type map are the ones a new computation would give.
C12_SerializedOnce ==
    [][\A n \in NodeIds :
          Serialize(n) =>
              /\ last'.error = "" =>
                    /\ resultMemo'[n].set
                    /\ Returned(resultMemo'[n].res) = Returned(serialize(EnvNow, n))
              /\ resultMemo[n].set =>
                    /\ last'.error = ""
                    /\ last'.warned = <<>>
                    /\ resultMemo' = resultMemo
                    /\ fieldMapMemo' = fieldMapMemo
                    /\ directiveMapMemo' = directiveMapMemo
                    /\ Returned(resultMemo[n].res) = Returned(serialize(EnvNow, n))]_vars

\* a selection whose first serialization logged a warning, serialized again
C12_Witness ==
    /\ last.op = "serialize"
    /\ last.error = ""
    /\ last.warned = <<>>
    /\ resultMemo[last.recv].set
    /\ resultMemo[last.recv].res.warnings # <<>>
    /\ resultMemo[last.recv].res.text # <<>>

(***************************************************************************)
(* C13, under SpecMethods.                                                 *)
(***************************************************************************)
DirectiveOps == {"$directive", "$include", "$skip"}

\* the newest operation of the chain of n is the selection of a field: n
\* adds a field that is no spread (a field just selected, or selected and
\* then given an alias or a directive)
SelectsField(h, n) ==
    /\ h[n].field # ""
    /\ ~h[n].negative
    /\ ~StartsWithSpread(h[n].field)

\* the field map of n has the field name with the directive in its options
HasFieldDirective(h, n, name, d) ==
    \E i \in 1..Len(buildFieldMap(h, n)) :
        /\ buildFieldMap(h, n)[i].name = name
        /\ buildFieldMap(h, n)[i].fieldOptionsValue.def
        /\ MapHas(buildFieldMap(h, n)[i].fieldOptionsValue.directives, d)

\* C13 (as stated): $directive, $include and $skip put the directive in the
\* options of the receiver's field and leave the directive map as it was
\* when the receiver's most recent operation is a field selection; in every
\* other case they put it in the directive map and leave the field map as
\* it was.
C13_DirectiveLevel ==
    (last.op \in DirectiveOps /\ last.error = "") =>
        IF SelectsField(nodes, last.recv)
        THEN /\ HasFieldDirective(nodes, last.node, nodes[last.recv].field,
                                  last.names[1])
             /\ buildDirectiveMap(nodes, last.node)
                    = buildDirectiveMap(nodes, last.recv)
        ELSE /\ MapHas(buildDirectiveMap(nodes, last.node), last.names[1])
             /\ buildFieldMap(nodes, last.node) = buildFieldMap(nodes, last.recv)

(***************************************************************************)
(* SpecEmbed: selections of either type, with or without a list of         *)
(* concrete member types, embedded into one another by addEmbeddable and   *)
(* by $on.  An error thrown by a call is not caught: it ends the run.      *)
(***************************************************************************)
MaxEmbedNodes == 4

\* the unionEntityTypes createSelection is called with
MemberLists == {<<>>, <<"Post">>}

\* the fragment names a caller passes: none, a name, and the two refused
EmbedNames == {NoName, Name("F"), Name(""), Name("on Post")}

\* createSelection(schemaType, enumInputMetadata, unionEntityTypes)
CreateSelection(t, u) ==
    /\ Allocate(<<RootNode(t, u)>>)
    /\ last' = Op("createSelection", 0, <<t>>, Len(nodes) + 1, "")

\* $on with __typename added whatever the child's type
on_AlwaysTypename(h, n, child, fragmentName) ==
    LET parent == addField(n, "__typename", NoArgs, 0, NoOptions).node
        r == addEmbeddable(Append(h, parent), Len(h) + 1, child, fragmentName)
    IN  IF r.error # "" THEN Throws(r.error) ELSE Nodes(<<parent, r.node>>)

\* $on(child, fragmentName): addEmbeddable on the receiver, or on the
\* receiver extended with __typename when the child's type name differs
on(h, n, child, fragmentName) ==
    IF schemaTypeOf(h, n) # schemaTypeOf(h, child)
    THEN LET parent == addField(n, "__typename", NoArgs, 0, NoOptions).node
             r == addEmbeddable(Append(h, parent), Len(h) + 1, child, fragmentName)
         IN  IF r.error # "" THEN Throws(r.error) ELSE Nodes(<<parent, r.node>>)
    ELSE LET r == addEmbeddable(h, n, child, fragmentName)
         IN  IF r.error # "" THEN Throws(r.error) ELSE Nodes(<<r.node>>)

On(n, child, fragmentName) ==
    Resolve("$on", n, <<fragmentName.name>>, on(nodes, n, child, fragmentName))

NextEmbed ==
    /\ UNCHANGED <<schemaVars, pluginVars, writerVars, drainVars>>
    /\ /\ last.error = ""
       /\ \/ \E t \in TypeNames, u \in MemberLists : CreateSelection(t, u)
          \/ \E n \in NodeIds : SelectScalar(n, "id")
          \/ \E n \in NodeIds, c \in NodeIds, f \in EmbedNames : AddEmbeddable(n, c, f)
          \/ \E n \in NodeIds, c \in NodeIds, f \in EmbedNames : On(n, c, f)
       /\ Len(nodes') <= MaxEmbedNodes

SpecEmbed == InitProxy /\ [][NextEmbed]_vars

(***************************************************************************)
(* C14, under SpecEmbed.                                                   *)
(***************************************************************************)
\* the children embedded along the chain of n under the spread key, in
\* chain order (oldest first)
SpreadChildren(h, n, key) ==
    LET spreads == SelectSeq(chainNodes(h, n), LAMBDA i : h[i].field = key)
    IN  [j \in 1..Len(spreads) |-> h[spreads[j]].child]

\* the child list the field map of n holds under the spread key
Accumulated(h, n, key) ==
    /\ MapHas(buildFieldMap(h, n), key)
    /\ MapGet(buildFieldMap(h, n), key).childSelections = SpreadChildren(h, n, key)

\* type t is in the list of concrete member types of the root of n
IsMemberOf(h, n, t) ==
    \E i \in 1..Len(unionItemTypesOf(h, n)) : unionItemTypesOf(h, n)[i] = t

\* C14 (as stated): addEmbeddable with no name uses the key "..." when
\* child and receiver have the same type or the receiver is a union and
\* the child's type is one of its member types, and "... on ChildType"
\* otherwise; with a name it uses "... name"; the field map holds under
\* that key the children embedded under it, in chain order.
C14_SpreadKeyByParentUnion ==
    (last.op = "addEmbeddable" /\ last.error = "") =>
        LET child == nodes[last.node].child
            childType == schemaTypeOf(nodes, child)
            key == IF last.names[1] # "" THEN NamedSpread(last.names[1])
                   ELSE IF childType = schemaTypeOf(nodes, last.recv)
                           \/ IsMemberOf(nodes, last.recv, childType)
                   THEN "..."
                   ELSE InlineSpread(childType)
        IN  /\ nodes[last.node].field = key
            /\ Accumulated(nodes, last.node, key)

\* C14 (amended): addEmbeddable throws and builds no node for the names ""
\* and "on ...", and only for them; with any other name it uses the key
\* "... name"; with no name it uses "..." when child and receiver have the
\* same type name or the child's root has a non-empty list of member
\* types, and "... on ChildType" otherwise; the field map holds under that
\* key the children embedded under it, in chain order.
C14_SpreadKeyByChildUnion ==
    (last.op = "addEmbeddable") =>
        IF last.error # ""
        THEN /\ last.node = 0
             /\ last.names[1] = "" \/ StartsWithOnWord(last.names[1])
        ELSE LET child == nodes[last.node].child
                 key == IF last.names[1] # "" THEN NamedSpread(last.names[1])
                        ELSE IF schemaTypeOf(nodes, child) = schemaTypeOf(nodes, last.recv)
                                \/ unionItemTypesOf(nodes, child) # <<>>
                        THEN "..."
                        ELSE InlineSpread(schemaTypeOf(nodes, child))
             IN  /\ ~StartsWithOnWord(last.names[1])
                 /\ nodes[last.node].ctx = last.recv
                 /\ child \in 1..(last.node - 1)
                 /\ nodes[last.node].field = key
                 /\ Accumulated(nodes, last.node, key)

\* a selection with member types embedded without a name into a selection
\* of another type that already has an anonymous spread
C14_Witness ==
    /\ last.op = "addEmbeddable"
    /\ last.error = ""
    /\ last.names = <<"">>
    /\ nodes[last.node].field = "..."
    /\ schemaTypeOf(nodes, nodes[last.node].child) # schemaTypeOf(nodes, last.recv)
    /\ unionItemTypesOf(nodes, last.recv) = <<>>
    /\ Len(SpreadChildren(nodes, last.node, "...")) = 2

(***************************************************************************)
(* C15, under SpecEmbed.                                                   *)
(***************************************************************************)
\* the fragment name a call that returned was made with
NameGiven(op) == IF op.names[1] = "" THEN NoName ELSE Name(op.names[1])

\* C15: the node $on returns embeds the child under the spread key
\* addEmbeddable chooses for it, and its field map holds that key with the
\* child as the newest of its children; when the child's type name differs
\* from the receiver's, the returned node extends a selection of
\* __typename made on the receiver (so its field map has __typename), and
\* when the names are equal it extends the receiver itself (so __typename
\* is in its field map only if the receiver had it).
C15_OnEmbedsChild ==
    (last.op = "$on" /\ last.error = "") =>
        LET spread == nodes[last.node]
            parent == spread.ctx
            entry == MapGet(buildFieldMap(nodes, last.node), spread.field)
        IN  /\ spread.child \in 1..(last.node - 1)
            /\ spread.field = addEmbeddable(nodes, parent, spread.child,
                                            NameGiven(last)).node.field
            /\ StartsWithSpread(spread.field)
            /\ MapHas(buildFieldMap(nodes, last.node), spread.field)
            /\ entry.childSelections[Len(entry.childSelections)] = spread.child
            /\ IF schemaTypeOf(nodes, spread.child) # schemaTypeOf(nodes, last.recv)
               THEN /\ parent = last.node - 1
                    /\ nodes[parent].ctx = last.recv
                    /\ nodes[parent].field = "__typename"
                    /\ ~nodes[parent].negative
                    /\ MapHas(buildFieldMap(nodes, last.node), "__typename")
               ELSE /\ parent = last.recv
                    /\ MapHas(buildFieldMap(nodes, last.node), "__typename")
                           = MapHas(buildFieldMap(nodes, last.recv), "__typename")

\* a Post selection embedded by $on into a Query selection
C15_Witness ==
    /\ last.op = "$on"
    /\ last.error = ""
    /\ schemaTypeOf(nodes, last.recv) = "Query"
    /\ schemaTypeOf(nodes, nodes[last.node].child) = "Post"
    /\ unionItemTypesOf(nodes, nodes[last.node].child) = <<>>
    /\ MapKeys(buildFieldMap(nodes, last.node)) = {"__typename", "... on Post"}

(***************************************************************************)
(* SpecAssociation: one selection chain on which association fields are    *)
(* called with a builder callback, a ready child or neither, among them    *)
(* Query.author, whose target type is not registered.  An error thrown by  *)
(* a call is not caught: it ends the run.                                  *)
(***************************************************************************)
MaxAssociationNodes == 5

\* the child arguments: none; callbacks returning the selection they are
\* given, unchanged or after selecting fields on it; the root selection
AssociationChildren ==
    {[kind |-> "none", node |-> 0, names |-> <<>>],
     [kind |-> "callback", node |-> 0, names |-> <<>>],
     [kind |-> "callback", node |-> 0, names |-> <<"id">>],
     [kind |-> "callback", node |-> 0, names |-> <<"id", "title">>],
     [kind |-> "selection", node |-> 1, names |-> <<>>]}

NextAssociation ==
    /\ UNCHANGED <<schemaVars, pluginVars, writerVars, drainVars>>
    /\ LET n == Len(nodes)
       IN  /\ last.error = ""
           /\ \/ \E p \in {"id", "title"} : SelectScalar(n, p)
              \/ \E p \in {"post", "posts", "author"} :
                    \E a \in ProxyBundles(p), c \in AssociationChildren :
                       CallAssociation(n, p, a, c)
              \/ Directive(n, "live", NoArgs)
           /\ Len(nodes') <= MaxAssociationNodes

SpecAssociation == InitProxy /\ [][NextAssociation]_vars

\* the root of the chain of n
RECURSIVE rootOf(_, _)
rootOf(h, n) == IF h[n].ctx = 0 THEN n ELSE rootOf(h, h[n].ctx)

\* C16: an association field called with neither a child nor a callback,
\* or whose target type is not registered, throws and returns no node.
\* Otherwise the returned node's field map holds the field with exactly
\* one child selection; for a callback, that child is built on a selection
\* made for the call, which has the field's target type, no member types,
\* an empty field map and an empty directive map; for a ready child it is
\* the selection passed.
C16_AssociationChild ==
    (last.op = "association") =>
        LET p == last.names[1]
            target == SchemaField(schemaTypeOf(nodes, last.recv), p).targetTypeName
        IN  IF last.names[3] = "none" \/ target \notin TypeNames
            THEN last.error # "" /\ last.node = 0
            ELSE LET child == nodes[last.node].child
                     fresh == rootOf(nodes, child)
                 IN  /\ last.error = ""
                     /\ nodes[last.node].ctx = last.recv
                     /\ MapHas(buildFieldMap(nodes, last.node), p)
                     /\ MapGet(buildFieldMap(nodes, last.node), p).childSelections
                            = <<child>>
                     /\ IF last.names[3] = "callback"
                        THEN /\ fresh = last.recv + 1
                             /\ child \in fresh..(last.node - 1)
                             /\ nodes[fresh] = RootNode(target, <<>>)
                             /\ buildFieldMap(nodes, fresh) = <<>>
                             /\ buildDirectiveMap(nodes, fresh) = <<>>
                        ELSE child = 1

\* posts called with a callback on a Query selection that already has a
\* field: the callback's selection starts empty
C16_Witness ==
    /\ last.op = "association"
    /\ last.names = <<"posts", "", "callback">>
    /\ last.error = ""
    /\ buildFieldMap(nodes, last.recv) # <<>>
    /\ MapKeys(buildFieldMap(nodes, nodes[last.node].child)) = {"id"}

(***************************************************************************)
(* C17, under SpecMethods.                                                 *)
(***************************************************************************)
\* C17: $alias on a selection whose chain names no field (the root, or the
\* root followed by selection-level directives only) throws the usage
\* error and returns no node.
C17_AliasNeedsField ==
    (last.op = "$alias" /\ chainNodes(nodes, last.recv) = <<>>) =>
        /\ last.error = "$alias requires a preceding field selection"
        /\ last.node = 0

\* $alias after two selection-level directives
C17_Witness ==
    /\ last.op = "$alias"
    /\ last.recv = 3
    /\ chainNodes(nodes, last.recv) = <<>>
    /\ Len(buildDirectiveMap(nodes, last.recv)) = 2
    /\ last.error # ""
    /\ Len(nodes) = 3

(***************************************************************************)
(* SpecRegistry: the schema module from its first import: types A and B    *)
(* are created directly and through factories, which are registered and    *)
(* resolved in any order.  An error thrown by a call is caught by the      *)
(* caller, who goes on.                                                    *)
(***************************************************************************)
MaxSchemaTypes == 3

RegistryNames == {"A", "B"}

\* the declaredFields of the types created: one or two fields
OneField == <<Descriptor("id", "ID")>>
TwoFields == <<Descriptor("id", "ID"), Descriptor("title", "SCALAR")>>

\* the factories registered for typeName: without supertypes, with the
\* other type or the type itself as supertype, and one whose type is
\* rejected by validateType
FactoriesOf(typeName) ==
    {Factory(<<>>, typeName, "OBJECT", TwoFields),
     Factory(<<CHOOSE other \in RegistryNames : other # typeName>>, typeName,
             "OBJECT", OneField),
     Factory(<<typeName>>, typeName, "OBJECT", OneField),
     Factory(<<>>, typeName, "EDGE", OneField)}

SchemaNow == SchemaState(schemaTypes, SCHEMA_TYPE_REGISTRY, SCHEMA_TYPE_RESOLVING)

\* the module after a call with outcome r
Commit(op, name, r) ==
    /\ schemaTypes' = r.s.types
    /\ SCHEMA_TYPE_REGISTRY' = r.s.registry
    /\ SCHEMA_TYPE_RESOLVING' = r.s.resolving
    /\ schemaCall' = SchemaCall(op, name, r)
    /\ UNCHANGED <<selectionVars, pluginVars, writerVars, drainVars>>

CreateType(name, category, declaredFields) ==
    /\ Commit("createSchemaType", name,
              createSchemaType(SchemaNow, name, category, <<>>, declaredFields))
    /\ UNCHANGED SCHEMA_TYPE_FACTORY_REGISTRY

RegisterFactory(typeName, factory) ==
    /\ SCHEMA_TYPE_FACTORY_REGISTRY'
           = registerSchemaTypeFactory(SCHEMA_TYPE_FACTORY_REGISTRY, typeName, factory)
    /\ schemaCall' = SchemaCall("registerSchemaTypeFactory", typeName,
                                SchemaReturns(SchemaNow, 0))
    /\ UNCHANGED <<schemaTypes, SCHEMA_TYPE_REGISTRY, SCHEMA_TYPE_RESOLVING>>
    /\ UNCHANGED <<selectionVars, pluginVars, writerVars, drainVars>>

ResolveType(typeName) ==
    /\ Commit("resolveRegisteredSchemaType", typeName,
              resolveRegisteredSchemaType(SchemaNow, SCHEMA_TYPE_FACTORY_REGISTRY,
                                          typeName, <<>>))
    /\ UNCHANGED SCHEMA_TYPE_FACTORY_REGISTRY

\* the module when it is first imported: nothing registered, no selection
InitRegistry ==
    /\ nodes = <<>>
    /\ fieldMapMemo = <<>>
    /\ directiveMapMemo = <<>>
    /\ resultMemo = <<>>
    /\ last = Op("import", 0, <<>>, 0, "")
    /\ schemaTypes = <<>>
    /\ SCHEMA_TYPE_REGISTRY = <<>>
    /\ SCHEMA_TYPE_FACTORY_REGISTRY = <<>>
    /\ SCHEMA_TYPE_RESOLVING = {}
    /\ schemaCall = SchemaCall("import", "", SchemaReturns(SchemaNow, 0))
    /\ PluginStartup /\ WriterStartup /\ NotSerializing

NextRegistry ==
    /\ \/ \E name \in RegistryNames, fs \in {OneField, TwoFields} :
             CreateType(name, "OBJECT", fs)
       \/ \E name \in RegistryNames :
             \E f \in FactoriesOf(name) : RegisterFactory(name, f)
       \/ \E name \in RegistryNames \cup {"C"} : ResolveType(name)
    /\ Len(schemaTypes') <= MaxSchemaTypes

SpecRegistry == InitRegistry /\ [][NextRegistry]_vars

\* the number of own fields of the type at index t
OwnFieldCount(types, t) == Len(types[t].ownFields)

\* the types created with the name, each registered when it was created,
\* in the order of their creation
RegistrationsOf(types, name) == {t \in 1..Len(types) : types[t].name = name}

\* the first of the registrations of name that has the most own fields
Richest(types, name) ==
    CHOOSE t \in RegistrationsOf(types, name) :
        \A u \in RegistrationsOf(types, name) :
            \/ OwnFieldCount(types, u) < OwnFieldCount(types, t)
            \/ OwnFieldCount(types, u) = OwnFieldCount(types, t) /\ t <= u

\* C18: after every call the registry entry of a name is the first of the
\* definitions registered under it that has the most own fields (and a
\* name never registered has no entry); across every call an entry stays
\* or is replaced by a definition with strictly more own fields.
C18_RegistryKeepsRichest ==
    [][\A name \in RegistryNames :
          LET before == registered(SchemaNow, name)
              after == registered(SchemaNow', name)
          IN  /\ after = IF RegistrationsOf(schemaTypes', name) = {} THEN 0
                         ELSE Richest(schemaTypes', name)
              /\ before # 0 =>
                    /\ after # 0
                    /\ OwnFieldCount(schemaTypes', after)
                           >= OwnFieldCount(schemaTypes, before)
                    /\ after # before =>
                           OwnFieldCount(schemaTypes', after)
                               > OwnFieldCount(schemaTypes, before)]_vars

\* A registered with one field, then with two, then with two again: the
\* second definition is the entry
C18_Witness ==
    /\ Len(schemaTypes) = 3
    /\ \A t \in 1..3 : schemaTypes[t].name = "A"
    /\ [t \in 1..3 |-> OwnFieldCount(schemaTypes, t)] = <<1, 2, 2>>
    /\ registered(SchemaNow, "A") = 2

(***************************************************************************)
(* C19, under SpecRegistry.                                                *)
(***************************************************************************)
\* the factory of the name was running when the request e was made
Reentrant(e) == \E i \in 1..Len(e.stack) : e.stack[i] = e.name

CircularError(name) == "Circular schema factory resolution detected for " \o name

\* C19: every resolution request of a call, the outermost one and those
\* made by the factories it runs, returns the registered type when the
\* name has one; else returns undefined when the name has no factory; else
\* throws the circular-resolution error when the name's own factory is
\* running; else runs the factory and, unless that throws, returns a type
\* registered under the name, or undefined.  What the call returns is the
\* outcome of its outermost request, and after a factory ran it is the
\* registry entry of the name.
C19_ResolveOrCircular ==
    (schemaCall.op = "resolveRegisteredSchemaType") =>
        LET log == schemaCall.log
            outer == log[Len(log)]
        IN  /\ Len(log) >= 1
            /\ outer.name = schemaCall.name
            /\ outer.stack = <<>>
            /\ outer.result = schemaCall.result
            /\ outer.error = schemaCall.error
            /\ schemaCall.error = "" =>
                   schemaCall.result = registered(SchemaNow, schemaCall.name)
            /\ \A i \in 1..Len(log) :
                  IF log[i].known # 0
                  THEN log[i].error = "" /\ log[i].result = log[i].known
                  ELSE IF ~log[i].pending
                  THEN log[i].error = "" /\ log[i].result = 0
                  ELSE IF Reentrant(log[i])
                  THEN log[i].error = CircularError(log[i].name) /\ log[i].result = 0
                  ELSE log[i].error = "" =>
                          \/ log[i].result = 0
                          \/ schemaTypes[log[i].result].name = log[i].name

\* A's factory resolves B, whose factory resolves A
C19_Witness ==
    /\ schemaCall.op = "resolveRegisteredSchemaType"
    /\ schemaCall.name = "A"
    /\ schemaCall.error = CircularError("A")
    /\ \E i \in 1..Len(schemaCall.log) :
          /\ schemaCall.log[i].name = "A"
          /\ schemaCall.log[i].stack = <<"A", "B">>
          /\ schemaCall.log[i].error = CircularError("A")

(***************************************************************************)
(* SpecShape: createSchemaType called directly with every category and     *)
(* with field lists that have or lack edges, node and cursor.              *)
(***************************************************************************)
MaxShapeTypes == 2

TypeCategories == {"OBJECT", "CONNECTION", "EDGE"}

ShapeFields ==
    {<<>>,
     <<Descriptor("edges", "LIST")>>,
     <<Descriptor("edges", "SCALAR")>>,
     <<Descriptor("node", "REFERENCE")>>,
     <<Descriptor("node", "SCALAR")>>,
     <<Descriptor("node", "REFERENCE"), Descriptor("cursor", "SCALAR")>>,
     <<Descriptor("node", "REFERENCE"), Descriptor("cursor", "ID")>>}

NextShape ==
    /\ \E name \in RegistryNames, category \in TypeCategories, fs \in ShapeFields :
          CreateType(name, category, fs)
    /\ Len(schemaTypes') <= MaxShapeTypes

SpecShape == InitRegistry /\ [][NextShape]_vars

\* the field list declares the field name with the category
Declares(fs, name, category) ==
    \E i \in 1..Len(fs) : fs[i].name = name /\ fs[i].category = category

\* the field list declares the field name with another category
DeclaresOther(fs, name, category) ==
    \E i \in 1..Len(fs) : fs[i].name = name /\ fs[i].category # category

\* the category shapes the claim names
Malformed(category, fs) ==
    \/ category = "CONNECTION" /\ ~Declares(fs, "edges", "LIST")
    \/ category = "EDGE" /\ ~Declares(fs, "node", "REFERENCE")
    \/ category = "EDGE" /\ DeclaresOther(fs, "cursor", "SCALAR")

\* C20: createSchemaType called with a CONNECTION type without a LIST field
\* edges, an EDGE type without a REFERENCE field node, or an EDGE type with
\* a cursor field that is not SCALAR throws, returns no type and leaves the
\* registry and the types as they were; called with any other shape (and
\* no supertypes) it returns a new type.
C20_MalformedShapeRejected ==
    [][\A name \in RegistryNames, category \in TypeCategories, fs \in ShapeFields :
          CreateType(name, category, fs) =>
              IF Malformed(category, fs)
              THEN /\ schemaCall'.error # ""
                   /\ schemaCall'.result = 0
                   /\ SCHEMA_TYPE_REGISTRY' = SCHEMA_TYPE_REGISTRY
                   /\ schemaTypes' = schemaTypes
              ELSE /\ schemaCall'.error = ""
                   /\ schemaCall'.result = Len(schemaTypes) + 1
                   /\ schemaTypes'[Len(schemaTypes) + 1].name = name
                   /\ schemaTypes'[Len(schemaTypes) + 1].category = category]_vars

\* an EDGE type with an ID cursor rejected while another type is registered
C20_Witness ==
    /\ schemaCall.op = "createSchemaType"
    /\ schemaCall.error = "EDGE cursor must be SCALAR"
    /\ schemaCall.result = 0
    /\ Len(SCHEMA_TYPE_REGISTRY) = 1
    /\ Len(schemaTypes) = 1

(***************************************************************************)
(* SpecFields: types created with supertypes among the types that exist,   *)
(* and the getter `fields` read on any of them, in any order.              *)
(***************************************************************************)
MaxFieldTypes == 3

\* the declaredFields of the types created: id and title, id with two
\* different categories
FieldLists ==
    {<<Descriptor("id", "ID")>>,
     <<Descriptor("id", "SCALAR")>>,
     <<Descriptor("title", "SCALAR")>>,
     <<Descriptor("title", "SCALAR"), Descriptor("id", "REFERENCE")>>}

\* the superTypes of a type created when n types exist
SuperLists(n) ==
    {<<>>} \cup {<<i>> : i \in 1..n}
           \cup {p \in {<<i, j>> : i \in 1..n, j \in 1..n} : p[1] # p[2]}

CreateSubtype(name, superTypes, declaredFields) ==
    /\ Commit("createSchemaType", name,
              createSchemaType(SchemaNow, name, "OBJECT", superTypes, declaredFields))
    /\ UNCHANGED SCHEMA_TYPE_FACTORY_REGISTRY

\* type.fields, for the type at index t
GetFields(t) ==
    /\ Commit("fields", schemaTypes[t].name, fieldsOf(SchemaNow, t))
    /\ UNCHANGED SCHEMA_TYPE_FACTORY_REGISTRY

NextFields ==
    \/ /\ Len(schemaTypes) < MaxFieldTypes
       /\ \E name \in RegistryNames, fs \in FieldLists :
             \E supers \in SuperLists(Len(schemaTypes)) :
                 CreateSubtype(name, supers, fs)
    \/ \E t \in 1..Len(schemaTypes) : GetFields(t)

SpecFields == InitRegistry /\ [][NextFields]_vars

\* the types d supertype steps above t (t itself for d = 0)
RECURSIVE AncestorsAt(_, _, _)
AncestorsAt(types, t, d) ==
    IF d = 0 THEN {t}
    ELSE UNION {{types[a].interfaces[i] : i \in 1..Len(types[a].interfaces)} :
                    a \in AncestorsAt(types, t, d - 1)}

\* the least number of supertype steps from t up to a
Distance(types, t, a) ==
    CHOOSE d \in 0..Len(types) :
        /\ a \in AncestorsAt(types, t, d)
        /\ \A e \in 0..(d - 1) : a \notin AncestorsAt(types, t, e)

Ancestors(types, t) == UNION {AncestorsAt(types, t, d) : d \in 0..Len(types)}

\* t and its transitive supertypes that declare the field name
Declaring(types, t, name) ==
    {a \in Ancestors(types, t) : MapHas(types[a].ownFields, name)}

\* the declaring types no other declaring type is nearer to t than
MostSpecific(types, t, name) ==
    {a \in Declaring(types, t, name) :
        \A b \in Declaring(types, t, name) :
            Distance(types, t, a) <= Distance(types, t, b)}

\* C21: the merged field table a type's getter computed and keeps holds
\* exactly the field names the type or a transitive supertype declares,
\* and each name with the declaration of a most specific declaring type:
\* the type's own before a supertype's, a nearer supertype's before a more
\* distant ancestor's.
C21_MostSpecificWins ==
    \A t \in 1..Len(schemaTypes) :
        schemaTypes[t]._fields.defined =>
            LET merged == schemaTypes[t]._fields.map
            IN  /\ MapKeys(merged)
                       = UNION {MapKeys(schemaTypes[a].ownFields) :
                                    a \in Ancestors(schemaTypes, t)}
                /\ \A i \in 1..Len(merged) :
                      \E a \in MostSpecific(schemaTypes, t, merged[i].key) :
                          merged[i] = MapGet(schemaTypes[a].ownFields, merged[i].key)

(***************************************************************************)
(* SpecPlugin: the dev server with a local schema file: buildStart, edits  *)
(* of the schema file, the change events of the watcher and the ends of    *)
(* the awaits of a run, in any order.                                      *)
(***************************************************************************)
MaxChanges == 3

NextPlugin ==
    /\ \/ \E command \in {"serve", "build"} : BuildStart(command)
       \/ schemaFile < MaxChanges /\ EditSchemaFile
       \/ ChangeOfSchema
       \/ ChangeOfOther
       \/ \E i \in 1..Len(runs), ok \in BOOLEAN : LoadSchema(i, ok)
       \/ \E i \in 1..Len(runs), ok \in BOOLEAN : Generate(i, ok)
    /\ UNCHANGED <<selectionVars, schemaVars, writerVars, drainVars>>

SpecPlugin == InitRegistry /\ [][NextPlugin]_vars

\* no run is in flight and no change event is still to come: the plugin
\* has nothing scheduled
Idle == runs = <<>> /\ changeEvents = 0

\* C22: once the plugin has nothing left to do, the latest codegen run
\* started at or after the latest change event of the schema file, and
\* when that run succeeded the generated files come from the schema file
\* as it is now.
C22_ChangeFollowedByRun ==
    (Idle /\ pluginLog.delivered > 0) =>
        /\ pluginLog.lastStart >= pluginLog.delivered
        /\ pluginLog.outcome = "done" => generated = schemaFile

(***************************************************************************)
(* SpecWriter: a TextBuilder used the way its callers use it: every item   *)
(* of a scope, a text or a nested scope, is written after a call of        *)
(* separator.                                                              *)
(***************************************************************************)
MaxDepth == 2
MaxItems == 3
MaxWritten == 11

\* the options of the scopes opened
ScopeOptions ==
    {[type |-> "block", multiLines |-> TRUE, separator |-> ""],
     [type |-> "block", multiLines |-> FALSE, separator |-> ""],
     [type |-> "block", multiLines |-> FALSE, separator |-> "; "],
     [type |-> "array", multiLines |-> FALSE, separator |-> ""],
     [type |-> "arguments", multiLines |-> TRUE, separator |-> ""]}

\* the tokens separator can emit: the defaults, the option of a scope and
\* the argument of a call
SeparatorTokens == {", ", "; ", " | "}

\* what `value || scope.separator` is in the innermost scope
TokenOf(w, value) ==
    IF value # "" THEN value ELSE w.scopes[Len(w.scopes)].separator

\* one more item in the innermost scope; a separator is due when the scope
\* held an item before and the call has a token
Counted(w, value) ==
    [items |-> [written.items EXCEPT ![Len(written.items)] = @ + 1],
     due |-> written.due
                 + IF written.items[Len(written.items)] >= 1 /\ TokenOf(w, value) # ""
                   THEN 1 ELSE 0]

\* separator(value); text(item)
WriteItem(value, item) ==
    /\ Len(writer.scopes) > 0
    /\ written.items[Len(written.items)] < MaxItems
    /\ writer' = text(separator(writer, value), <<item>>)
    /\ written' = Counted(writer, value)

\* separator(value); scope({type, multiLines, separator: sep}, ...) up to
\* the call of the action; the outermost scope is opened without separator,
\* which throws outside a scope
WriteScope(value, type, multiLines, sep) ==
    /\ Len(writer.scopes) < MaxDepth
    /\ IF Len(writer.scopes) = 0
       THEN /\ writer' = scopeOpenWith(writer, type, multiLines, sep, "")
            /\ written' = [written EXCEPT !.items = Append(@, 0)]
       ELSE /\ written.items[Len(written.items)] < MaxItems
            /\ writer' = scopeOpenWith(separator(writer, value), type, multiLines, sep, "")
            /\ written' = [Counted(writer, value) EXCEPT !.items = Append(@, 0)]

\* the action of the innermost scope returns
EndScope ==
    /\ Len(writer.scopes) > 0
    /\ writer' = scopeClose(writer, <<"">>)
    /\ written' = [written EXCEPT !.items = SubSeq(@, 1, Len(@) - 1)]

NextWriter ==
    /\ \/ \E value \in {"", " | "} : WriteItem(value, "a")
       \/ \E value \in {"", " | "}, o \in ScopeOptions :
             WriteScope(value, o.type, o.multiLines, o.separator)
       \/ EndScope
    /\ Len(writer'.result) <= MaxWritten
    /\ UNCHANGED <<selectionVars, schemaVars, pluginVars, drainVars>>

SpecWriter == InitRegistry /\ [][NextWriter]_vars

\* line breaks and indentation
Layout == {"\n", "\t"}

\* the nearest token before (after) position j that is not layout, 0 when
\* there is none
TokenBefore(r, j) ==
    IF \E i \in 1..(j - 1) : r[i] \notin Layout
    THEN SetMax({i \in 1..(j - 1) : r[i] \notin Layout}) ELSE 0

TokenAfter(r, j) ==
    IF \E i \in (j + 1)..Len(r) : r[i] \notin Layout
    THEN CHOOSE i \in (j + 1)..Len(r) :
             /\ r[i] \notin Layout
             /\ \A m \in (j + 1)..(i - 1) : r[m] \in Layout
    ELSE 0

MaxLiteralNodes == 3

\* the values supplied for an argument
LiteralValues ==
    {Literal("1"), Null, Undefined,
     ArrayOf(<<Literal("1"), Null>>),
     ObjectOf(<<[key |-> "a", v |-> Undefined]>>)}

\* argument bundles for the field rank, which declares id, and for a
\* directive
LiteralBundles == {Args(<<[key |-> "id", v |-> v]>>) : v \in LiteralValues}

NextLiteral ==
    /\ UNCHANGED <<schemaVars, pluginVars, writerVars, drainVars>>
    /\ LET n == Len(nodes)
       IN  \/ /\ Len(nodes) < MaxLiteralNodes
              /\ \/ \E a \in LiteralBundles : AddField(n, "rank", a, 0, NoOptions)
                 \/ \E a \in LiteralBundles :
                       AddField(n, "id", NoArgs, 0, DirectiveOptions("include", a))
                 \/ \E a \in LiteralBundles : AddDirective(n, "live", a)
           \/ Serialize(n)

SpecLiteral == Init /\ [][NextLiteral]_vars

\* null or undefined
Absent(v) == v.kind \in {"null", "undefined"}

\* the value is absent or an array or object with an absent member
HoldsAbsent(v) ==
    \/ Absent(v)
    \/ v.kind = "array" /\ \E i \in 1..Len(v.items) : Absent(v.items[i])
    \/ v.kind = "object" /\ \E i \in 1..Len(v.kv) : Absent(v.kv[i].v)

BundleHoldsAbsent(args) == \E i \in 1..Len(args.kv) : HoldsAbsent(args.kv[i].v)

\* the argument bundles the serialization of n writes: those of the
\* entries of its field map, of their directives and of its directive map
BundlesOf(h, n) ==
    {buildFieldMap(h, n)[i].args : i \in 1..Len(buildFieldMap(h, n))}
    \cup UNION {{buildFieldMap(h, n)[i].fieldOptionsValue.directives[j].args :
                     j \in 1..Len(buildFieldMap(h, n)[i].fieldOptionsValue.directives)} :
                    i \in 1..Len(buildFieldMap(h, n))}
    \cup {buildDirectiveMap(h, n)[i].args : i \in 1..Len(buildDirectiveMap(h, n))}

\* C24: serializing a selection one of whose argument bundles holds an
\* absent value, at the top level of a field's or a directive's bundle or
\* as a member of an array or object, does not fail, and the text holds
\* the literal null.
C24_AbsentRendersNull ==
    (/\ last.op = "serialize"
     /\ \E a \in BundlesOf(nodes, last.recv) : BundleHoldsAbsent(a)) =>
        /\ last.error = ""
        /\ \E j \in 1..Len(resultMemo[last.recv].res.text) :
              resultMemo[last.recv].res.text[j] = "null"

(***************************************************************************)
(* SpecDrain: one chain on the root selection of Query with fields and     *)
(* named fragments, any earlier selection serving as a fragment, and the   *)
(* newest selection serialized with the rounds of the draining loop as     *)
(* separate steps.  serialize is synchronous: nothing else happens while   *)
(* it runs.                                                                *)
(***************************************************************************)
MaxDrainNodes == 4

\* serialize(root) up to the while loop: the body walk
StartSerialize(n) ==
    /\ ~serializing.active
    /\ serializing' = [active |-> TRUE, root |-> n,
                       body |-> acceptBlock(EnvNow, NewSerializeState, n),
                       st |-> [acceptBlock(EnvNow, NewSerializeState, n)
                                  EXCEPT !.w = NewTextBuilder],
                       rounds |-> 0]
    /\ UNCHANGED selectionVars

\* one pass of the while loop that does not break
DrainRound ==
    /\ serializing.active
    /\ serializing.st.error = ""
    /\ Len(serializing.st.namedFragmentMap) # 0
    /\ serializing' = [serializing EXCEPT !.st = drainRound(EnvNow, @),
                                          !.rounds = @ + 1]
    /\ UNCHANGED selectionVars

\* the break of the while loop and the return, or the error going on
ReturnResult ==
    /\ serializing.active
    /\ serializing.st.error # "" \/ Len(serializing.st.namedFragmentMap) = 0
    /\ Remember(serializing.root, SerializedResult(serializing.body, serializing.st))
    /\ serializing' = [serializing EXCEPT !.active = FALSE]

NextDrain ==
    /\ UNCHANGED <<schemaVars, pluginVars, writerVars>>
    /\ LET n == Len(nodes)
       IN  \/ /\ ~serializing.active
              /\ Len(nodes) < MaxDrainNodes
              /\ UNCHANGED drainVars
              /\ \/ AddField(n, "id", NoArgs, 0, NoOptions)
                 \/ \E c \in NodeIds, f \in {Name("F"), Name("G")} :
                       AddEmbeddable(n, c, f)
           \/ StartSerialize(n)
           \/ DrainRound
           \/ ReturnResult

SpecDrain == Init /\ [][NextDrain]_vars

\* the newest of the selections that are pending fragments, 0 when none is
NewestPending(st) ==
    IF Len(st.namedFragmentMap) = 0 THEN 0
    ELSE SetMax({st.namedFragmentMap[i].sel : i \in 1..Len(st.namedFragmentMap)})

\* a round of the draining loop was made
Drained == serializing.active /\ serializing'.rounds = serializing.rounds + 1

\* serialize returned or threw
Returned25 == serializing.active /\ ~serializing'.active

\* C25: every round of the draining loop leaves pending only fragments
\* that are older selections than the newest one pending before it, so a
\* selection with k nodes is drained in at most k rounds; while serialize
\* runs its next step, a round or the return, is possible; and serialize
\* returns with no fragment pending unless an error is thrown.
C25_DrainTerminates ==
    /\ [](serializing.active =>
              serializing.rounds + NewestPending(serializing.st) <= Len(nodes))
    /\ [][/\ Drained =>
                NewestPending(serializing'.st) < NewestPending(serializing.st)
          /\ serializing.active => Drained \/ Returned25
          /\ Returned25 =>
                \/ last'.error # ""
                \/ /\ Len(serializing.st.namedFragmentMap) = 0
                   /\ resultMemo'[serializing.root].set]_vars

\* the fragment F holds a spread of F with an older selection: two rounds
C25_Witness ==
    /\ ~serializing.active
    /\ serializing.rounds = 2
    /\ last.op = "serialize"
    /\ last.error = ""
    /\ \E i \in 1..Len(buildFieldMap(nodes, serializing.root)) :
          /\ buildFieldMap(nodes, serializing.root)[i].key = "... F"
          /\ \E c \in ChildrenOf(nodes, serializing.root) :
                \E j \in 1..Len(buildFieldMap(nodes, c)) :
                    buildFieldMap(nodes, c)[j].key = "... F"

(***************************************************************************)
(* SpecReadd: one chain built through the resolver from the root selection *)
(* of either type: scalar fields, a field with arguments, an association   *)
(* with a callback, and the built-ins that add the last field again.  An   *)
(* error thrown by a call ends the run.                                    *)
(***************************************************************************)
MaxReaddNodes == 6

ReaddBuiltIns == {"$alias", "$directive", "$include", "$skip"}

NextReadd ==
    /\ UNCHANGED <<schemaVars, pluginVars, writerVars, drainVars>>
    /\ LET n == Len(nodes)
       IN  /\ last.error = ""
           /\ \/ \E p \in {"id", "title"} : SelectScalar(n, p)
              \/ \E a \in ProxyBundles("post") :
                    CallAssociation(n, "post", a,
                        [kind |-> "callback", node |-> 0, names |-> <<"id">>])
              \/ CallField(n, "rank", Args(<<[key |-> "id", v |-> Literal("1")]>>))
              \/ Alias(n, "x")
              \/ Directive(n, "live", NoArgs)
              \/ Include(n, Literal("true"))
              \/ Skip(n, Literal("true"))
           /\ Len(nodes') <= MaxReaddNodes

SpecReadd == InitProxy /\ [][NextReadd]_vars

\* the last call was a built-in that adds the last field again, made on a
\* selection whose newest operation selected a field
Readded ==
    /\ last.op \in ReaddBuiltIns
    /\ last.error = ""
    /\ SelectsField(nodes, last.recv)

\* C26: after $alias or a field-level $directive, $include or $skip on a
\* selection whose newest operation selected a field, the field map of the
\* selection returned has an entry of that field with the arguments and
\* the child selection the field was selected with.
C26_ReaddKeepsArgsAndChild ==
    Readded =>
        \E i \in 1..Len(buildFieldMap(nodes, last.node)) :
            /\ buildFieldMap(nodes, last.node)[i].name = nodes[last.recv].field
            /\ buildFieldMap(nodes, last.node)[i].args = nodes[last.recv].args
            /\ buildFieldMap(nodes, last.node)[i].childSelections
                   = IF nodes[last.recv].child # 0 THEN <<nodes[last.recv].child>>
                     ELSE <<>>

\* C27: after $alias or a field-level $directive, $include or $skip on a
\* selection whose newest operation selected a field, the field map of the
\* selection returned has as many entries as the field map of the
\* selection the built-in was called on.
C27_ReaddKeepsEntryCount ==
    Readded =>
        Len(buildFieldMap(nodes, last.node)) = Len(buildFieldMap(nodes, last.recv))


(***************************************************************************)
(* SpecChildren: selections built through the resolver: scalar fields,     *)
(* $on with an inline child and $omit with names of fields and of spreads  *)
(* on any selection already built, $alias, $directive and serialization    *)
(* on the newest selection.  An error thrown by a call ends the run.       *)
(***************************************************************************)
MaxChildNodes == 4

ChildOmitNames == {<<"id">>, <<"...">>, <<"... on Post">>}

NextChildren ==
    /\ UNCHANGED <<schemaVars, pluginVars, writerVars, drainVars>>
    /\ /\ last.error = ""
       /\ \/ \E t \in TypeNames : CreateSelection(t, <<>>)
          \/ \E n \in NodeIds : SelectScalar(n, "id")
          \/ \E n \in NodeIds, c \in NodeIds : On(n, c, NoName)
          \/ \E n \in NodeIds, f \in ChildOmitNames : Omit(n, f)
          \/ Alias(Len(nodes), "x")
          \/ Directive(Len(nodes), "live", NoArgs)
          \/ Serialize(Len(nodes))
       /\ Len(nodes') <= MaxChildNodes

SpecChildren == InitProxy /\ [][NextChildren]_vars

\* no element of a child list is an absent child
NoAbsentChild(children) == \A j \in 1..Len(children) : children[j] # 0

\* the shape serialization relies on: a spread entry holds selections only,
\* any other entry has no child list or a list of exactly one selection
WalkableEntry(entry) ==
    IF StartsWithSpread(entry.name)
    THEN NoAbsentChild(entry.childSelections)
    ELSE /\ Len(entry.childSelections) <= 1
         /\ NoAbsentChild(entry.childSelections)
         /\ entry.hasChildren <=> (Len(entry.childSelections) = 1)

\* C28: after any sequence of resolver operations, every field-map entry
\* whose name starts with "..." has a child list made only of selection
\* nodes, and every other entry has no child list or a list of exactly one
\* selection node
C28_ChildrenAreSelections ==
    \A n \in NodeIds :
        \A i \in 1..Len(buildFieldMap(nodes, n)) :
            WalkableEntry(buildFieldMap(nodes, n)[i])


(***************************************************************************)
(* C29, under SpecPlugin.                                                  *)
(***************************************************************************)
\* the flag tells whether a run is in flight, and there is at most one
OneRun ==
    /\ Len(runs) <= 1
    /\ isRunning <=> (runs # <<>>)

\* C29: at most one codegen run is in flight at any time; a step that
\* starts a run is taken with no run in flight and the flag clear, so a
\* trigger during a run starts nothing; a step that ends a run, done or
\* failed, clears the flag; and with the flag clear runCodegen starts a run
C29_OneRunInFlight ==
    [][/\ OneRun
       /\ OneRun'
       /\ Len(runs') > Len(runs) => (~isRunning /\ runs = <<>> /\ pluginLog'.started)
       /\ (isRunning /\ pluginLog' # pluginLog /\ runs' = runs) => ~pluginLog'.started
       /\ Len(runs') < Len(runs) => (~isRunning' /\ pluginLog'.outcome \in {"done", "failed"})
       /\ ~isRunning' => runCodegen(isRunning', runs', "watch", 0).started]_vars

\* a run failed, a later trigger started a new run, and a change event
\* handled during that run started nothing
C29_Witness ==
    /\ pluginLog.outcome = "failed"
    /\ isRunning
    /\ Len(runs) = 1
    /\ pluginLog.trigger = "watch"
    /\ ~pluginLog.started
    /\ pluginLog.lastStart >= 0


(***************************************************************************)
(* C30, under SpecRegistry.                                                *)
(***************************************************************************)
\* the request i of the latest call is where an error was thrown: every
\* request logged before it returned
ThrownAt(log, i) ==
    /\ log[i].error # ""
    /\ \A j \in 1..(i - 1) : log[j].error = ""

\* the request was rejected as circular
RejectedAsCircular(entry) ==
    entry.error = circular(SchemaNow, entry.name).error

\* the factories running when the request was made
Running(entry) == {entry.stack[k] : k \in 1..Len(entry.stack)}

\* C30: after every call of the schema module, returned or thrown, the set
\* of names being resolved is empty, and a request is rejected as circular
\* only while the factory of its name is running: never a top-level
\* request, whatever failed before
C30_ResolvingRestored ==
    /\ SCHEMA_TYPE_RESOLVING = {}
    /\ \A i \in 1..Len(schemaCall.log) :
           (ThrownAt(schemaCall.log, i) /\ RejectedAsCircular(schemaCall.log[i]))
               => schemaCall.log[i].name \in Running(schemaCall.log[i])

\* a top-level resolution threw: the factory of the name failed because a
\* request it made was rejected as circular
C30_Witness ==
    /\ schemaCall.op = "resolveRegisteredSchemaType"
    /\ schemaCall.error # ""
    /\ Len(schemaCall.log) >= 2
    /\ \E i \in 1..Len(schemaCall.log) :
           /\ ThrownAt(schemaCall.log, i)
           /\ RejectedAsCircular(schemaCall.log[i])
    /\ schemaCall.log[Len(schemaCall.log)].stack = <<>>
    /\ schemaCall.log[Len(schemaCall.log)].error = schemaCall.error

=============================================================================
